---- MODULE Spec2Model ----
(***************************************************************************)
(* Token-to-audio-timing alignment engine of chinese-flashcards.           *)
(*                                                                         *)
(* Strings are sequences of one-character strings.  "a" and "b" stand for  *)
(* two CJK ideographs (U+4E00..U+9FFF), "," for a punctuation mark and " " *)
(* for a whitespace character.                                             *)
(* Times are kept in units of 1/Scale ms so that the divisions of the gap  *)
(* fill (by a token-index gap or by the token count) are exact; the        *)
(* rounding of the floating-point operations is not modelled.              *)
(***************************************************************************)
EXTENDS Integers, Sequences, FiniteSets, TLC

VARIABLES
  text,              \* req.body.text of POST /api/tts
  words,             \* req.body.words, the vocabulary
  cut,               \* what nodejieba.cut answered for the text
  segments,          \* SegmentedWord[] returned by segmentText
  wordTimings,       \* WordTiming[] filled by the wordBoundary callback
  tokens,            \* Token[]            argument of createTokenToSegmentMapping
  ttsMappings,       \* segment mappings   argument of createTokenToSegmentMapping
  mappings,          \* TokenMapping[]     local `mappings`, returned at the end
  usedTtsMappings,   \* Set<number>        local `usedTtsMappings`
  tokenIndex,        \* loop variable of the second pass
  pc,                \* position in createTokenToSegmentMapping
  callNo,            \* number of the call in progress (1 for the first)
  first,             \* the first call: its arguments and the list it returned
  currentTimeMs,     \* argument of getTokenAtTime
  located,           \* what getTokenAtTime returned
  frontendTokens,    \* Token[] of the tokenize of Articles.tsx
  store,             \* FlashcardRecord[] of the mock flashcard store
  nextId,            \* nextId of the mock flashcard store
  requests,          \* the requests on /mock/flashcards since the store was cleared
  response,          \* the response to the last of them
  interpolation,     \* the gap of an interpolation and the estimates made in it
  scanIndex,         \* loop variable i of tokenize
  ttsCache,          \* the rows of the table TTSCache
  nextCacheId,       \* the id the table gives to its next row
  handlers           \* the requests on /api/tts being served

request == <<text, words, cut, segments, wordTimings>>

\* the state of the parts modelled on their own: the interpolation in
\* floating point, the loop of tokenize, the cache table and its handlers
outside == <<interpolation, scanIndex, ttsCache, nextCacheId, handlers>>

\* what the request for speech does not touch: the locator's call, the
\* page's tokens, the mock flashcard store and the parts above
aside == <<currentTimeMs, located, frontendTokens, store, nextId, requests,
           response, interpolation, scanIndex, ttsCache, nextCacheId, handlers>>

vars == <<text, words, cut, segments, wordTimings,
          tokens, ttsMappings, mappings, usedTtsMappings, tokenIndex, pc,
          callNo, first, currentTimeMs, located, frontendTokens,
          store, nextId, requests, response,
          interpolation, scanIndex, ttsCache, nextCacheId, handlers>>

----------------------------------------------------------------------------
(* Bounds *)

MaxTokens == 3
MaxMappings == 3
\* repeated calls: sizes of the argument lists and number of calls
RepeatTokens == 2
RepeatMappings == 2
MaxCalls == 3
\* the request: length of the text and of the vocabulary
MaxText == 3
MaxWords == 2
\* the locator: sizes of the argument lists of the call that builds the list
LocateTokens == 2
LocateMappings == 2
\* the mapper: number of wordBoundary callbacks of one synthesis
MaxEvents == 2
\* the mock flashcard store: number of requests since it was cleared
MaxRequests == 4

RECURSIVE Factorial(_)
Factorial(n) == IF n <= 1 THEN 1 ELSE n * Factorial(n - 1)

\* Every time value is a multiple of 1/Scale ms.
Scale == Factorial(MaxTokens)
Ms(n) == n * Scale

----------------------------------------------------------------------------
(* Characters and strings *)

HanChars == {"a", "b"}
PunctuationChars == {","}
WhiteSpace == {" "}

RECURSIVE TrimStart(_)
TrimStart(s) ==
  IF s # <<>> /\ Head(s) \in WhiteSpace THEN TrimStart(Tail(s)) ELSE s

RECURSIVE TrimEnd(_)
TrimEnd(s) ==
  IF s # <<>> /\ s[Len(s)] \in WhiteSpace
  THEN TrimEnd(SubSeq(s, 1, Len(s) - 1))
  ELSE s

\* String.prototype.trim
Trim(s) == TrimEnd(TrimStart(s))

\* String.prototype.startsWith
StartsWith(s, p) == Len(p) <= Len(s) /\ SubSeq(s, 1, Len(p)) = p

\* String.prototype.includes
Includes(s, p) ==
  \E k \in 0..(Len(s) - Len(p)) : SubSeq(s, k + 1, k + Len(p)) = p

\* A mutant of IsPunctuation: the pattern matches no token.
IsPunctuationNever(str) == FALSE

\* the punctuation test of the gap fill, on the trimmed token text
IsPunctuation(str) ==
  LET t == Trim(str)
  IN  /\ Len(t) > 0
      /\ \A k \in 1..Len(t) : t[k] \in PunctuationChars \cup WhiteSpace

Max(S) == CHOOSE x \in S : \A y \in S : y <= x
MathMax(x, y) == IF x >= y THEN x ELSE y
MathMin(x, y) == IF x <= y THEN x ELSE y

----------------------------------------------------------------------------
(* Array.prototype.sort with a comparator key(a) - key(b): a stable sort *)

RECURSIVE InsertByStart(_, _)
InsertByStart(sorted, m) ==
  IF sorted = <<>> THEN <<m>>
  ELSE IF sorted[Len(sorted)].start <= m.start THEN Append(sorted, m)
  ELSE Append(InsertByStart(SubSeq(sorted, 1, Len(sorted) - 1), m),
              sorted[Len(sorted)])

RECURSIVE SortFrom(_, _)
SortFrom(ms, k) ==
  IF k = 0 THEN <<>> ELSE InsertByStart(SortFrom(ms, k - 1), ms[k])

\* A mutant of SortByStart: the list is returned in insertion order.
SortByStartSkipped(ms) == ms

\* mappings.sort((a, b) => a.start - b.start)
SortByStart(ms) == SortFrom(ms, Len(ms))

RECURSIVE InsertByTokenIndex(_, _)
InsertByTokenIndex(sorted, m) ==
  IF sorted = <<>> THEN <<m>>
  ELSE IF sorted[Len(sorted)].tokenIndex <= m.tokenIndex THEN Append(sorted, m)
  ELSE Append(InsertByTokenIndex(SubSeq(sorted, 1, Len(sorted) - 1), m),
              sorted[Len(sorted)])

RECURSIVE SortByTokenIndexFrom(_, _)
SortByTokenIndexFrom(ms, k) ==
  IF k = 0 THEN <<>>
  ELSE InsertByTokenIndex(SortByTokenIndexFrom(ms, k - 1), ms[k])

\* [...mappings].sort((a, b) => a.tokenIndex - b.tokenIndex)
SortByTokenIndex(ms) == SortByTokenIndexFrom(ms, Len(ms))

----------------------------------------------------------------------------
(* TokenizationService.tokenize *)

\* a token without a vocabulary entry has no `word`
NoWord == 0

\* String.prototype.substr(i, len), i from 0
Substr(s, i, len) == SubSeq(s, i + 1, MathMin(i + len, Len(s)))

\* A mutant of Slice: slice(i), without the end.
SliceToEnd(s, i, j) == SubSeq(s, i + 1, Len(s))

\* String.prototype.slice(i, j), 0 <= i <= j <= length
Slice(s, i, j) == SubSeq(s, i + 1, j)

IsHan(ch) == ch \in HanChars

\* buildLookup: map.get(key), the last word with that `simplified` wins
LookupGet(ws, key) ==
  LET hits == {k \in 1..Len(ws) : ws[k].simplified = key}
  IN  IF hits = {} THEN NoWord ELSE ws[Max(hits)].id

\* buildLookup: maxLen
LookupMaxLen(ws) == Max({1} \cup {Len(ws[k].simplified) : k \in 1..Len(ws)})

\* A mutant of RunEnd: every non-ideograph is a token of its own.
RunEndSingle(content, j) == j

\* end of the run of non-ideographs that starts at i
RECURSIVE RunEnd(_, _)
RunEnd(content, j) ==
  IF j < Len(content) /\ ~IsHan(content[j + 1]) THEN RunEnd(content, j + 1) ELSE j

\* A mutant of MatchedLen: the lengths are tried from 1 upwards.
RECURSIVE ShortestMatchFrom(_, _, _, _, _)
ShortestMatchFrom(content, ws, i, len, top) ==
  IF len > top THEN 0
  ELSE IF LookupGet(ws, Substr(content, i, len)) # NoWord THEN len
  ELSE ShortestMatchFrom(content, ws, i, len + 1, top)

ShortestMatchedLen(content, ws, i, len) ==
  ShortestMatchFrom(content, ws, i, 1, len)

\* the loop over len, from len down to 1: the matched length, 0 for none
RECURSIVE MatchedLen(_, _, _, _)
MatchedLen(content, ws, i, len) ==
  IF len <= 0 THEN 0
  ELSE IF LookupGet(ws, Substr(content, i, len)) # NoWord THEN len
  ELSE MatchedLen(content, ws, i, len - 1)

RECURSIVE TokenizeFrom(_, _, _, _)
TokenizeFrom(content, ws, i, toks) ==
  IF i >= Len(content) THEN toks
  ELSE IF ~IsHan(content[i + 1])
  THEN LET j == RunEnd(content, i + 1)
       IN  TokenizeFrom(content, ws, j,
             Append(toks, [text |-> Slice(content, i, j), word |-> NoWord,
                           index |-> Len(toks)]))
  ELSE LET matchedLen ==
             MatchedLen(content, ws, i,
                        MathMin(LookupMaxLen(ws), Len(content) - i))
       IN  IF matchedLen > 0
           THEN TokenizeFrom(content, ws, i + matchedLen,
                  Append(toks, [text |-> Substr(content, i, matchedLen),
                                word |-> LookupGet(ws, Substr(content, i, matchedLen)),
                                index |-> Len(toks)]))
           ELSE TokenizeFrom(content, ws, i + 1,
                  Append(toks, [text |-> <<content[i + 1]>>, word |-> NoWord,
                                index |-> Len(toks)]))

Tokenize(content, ws) ==
  IF content = <<>> THEN <<>> ELSE TokenizeFrom(content, ws, 0, <<>>)

----------------------------------------------------------------------------
(* tokenize of Articles.tsx, with its own buildLookup; its tokens have no   *)
(* index                                                                   *)

\* buildLookup of Articles.tsx: map.get(key)
FrontendLookupGet(ws, key) ==
  LET hits == {k \in 1..Len(ws) : ws[k].simplified = key}
  IN  IF hits = {} THEN NoWord ELSE ws[Max(hits)].id

\* buildLookup of Articles.tsx: maxLen
FrontendLookupMaxLen(ws) ==
  Max({1} \cup {Len(ws[k].simplified) : k \in 1..Len(ws)})

\* the inner while loop: j runs to the next ideograph or to the end
RECURSIVE FrontendRunEnd(_, _)
FrontendRunEnd(content, j) ==
  IF j < Len(content) /\ ~IsHan(content[j + 1])
  THEN FrontendRunEnd(content, j + 1)
  ELSE j

\* the for loop over len, from len down to 1
RECURSIVE FrontendMatchedLen(_, _, _, _)
FrontendMatchedLen(content, ws, i, len) ==
  IF len <= 0 THEN 0
  ELSE IF FrontendLookupGet(ws, Substr(content, i, len)) # NoWord THEN len
  ELSE FrontendMatchedLen(content, ws, i, len - 1)

RECURSIVE FrontendTokenizeFrom(_, _, _, _)
FrontendTokenizeFrom(content, ws, i, toks) ==
  IF i >= Len(content) THEN toks
  ELSE IF ~IsHan(content[i + 1])
  THEN LET j == FrontendRunEnd(content, i + 1)
       IN  FrontendTokenizeFrom(content, ws, j,
             Append(toks, [text |-> Slice(content, i, j), word |-> NoWord]))
  ELSE LET matchedLen ==
             FrontendMatchedLen(content, ws, i,
                                MathMin(FrontendLookupMaxLen(ws), Len(content) - i))
       IN  IF matchedLen > 0
           THEN FrontendTokenizeFrom(content, ws, i + matchedLen,
                  Append(toks,
                    [text |-> Substr(content, i, matchedLen),
                     word |-> FrontendLookupGet(ws, Substr(content, i, matchedLen))]))
           ELSE FrontendTokenizeFrom(content, ws, i + 1,
                  Append(toks, [text |-> <<content[i + 1]>>, word |-> NoWord]))

FrontendTokenize(content, ws) ==
  IF content = <<>> THEN <<>> ELSE FrontendTokenizeFrom(content, ws, 0, <<>>)

----------------------------------------------------------------------------
(* TTSSegmentationService.segmentText and mapTTSBoundaries *)

\* String.prototype.indexOf(sub, from), -1 when sub does not occur
IndexOf(s, sub, from) ==
  LET hits == {k \in from..(Len(s) - Len(sub)) : SubSeq(s, k + 1, k + Len(sub)) = sub}
  IN  IF hits = {} THEN -1 ELSE CHOOSE k \in hits : \A j \in hits : k <= j

\* A mutant of SegmentFrom: the index of a segment is its place in the cut.
RECURSIVE SegmentFromCutIndex(_, _, _, _, _)
SegmentFromCutIndex(txt, cutWords, k, currentPosition, ws) ==
  IF k > Len(cutWords) THEN ws
  ELSE LET segment == cutWords[k]
           segmentStart == IndexOf(txt, segment, currentPosition)
       IN  IF Trim(segment) = <<>>
           THEN SegmentFromCutIndex(txt, cutWords, k + 1,
                  currentPosition + Len(segment), ws)
           ELSE IF segmentStart # -1
           THEN SegmentFromCutIndex(txt, cutWords, k + 1, segmentStart + Len(segment),
                  Append(ws, [text |-> segment, start |-> segmentStart,
                              end |-> segmentStart + Len(segment),
                              index |-> k - 1]))
           ELSE SegmentFromCutIndex(txt, cutWords, k + 1, currentPosition, ws)

RECURSIVE SegmentFrom(_, _, _, _, _)
SegmentFrom(txt, cutWords, k, currentPosition, ws) ==
  IF k > Len(cutWords) THEN ws
  ELSE LET segment == cutWords[k]
           segmentStart == IndexOf(txt, segment, currentPosition)
       IN  IF Trim(segment) = <<>>
           THEN SegmentFrom(txt, cutWords, k + 1, currentPosition + Len(segment), ws)
           ELSE IF segmentStart # -1
           THEN SegmentFrom(txt, cutWords, k + 1, segmentStart + Len(segment),
                  Append(ws, [text |-> segment, start |-> segmentStart,
                              end |-> segmentStart + Len(segment),
                              index |-> Len(ws)]))
           ELSE SegmentFrom(txt, cutWords, k + 1, currentPosition, ws)

\* segmentText, for the answer cutWords of nodejieba.cut
SegmentText(txt, cutWords) == SegmentFrom(txt, cutWords, 1, 0, <<>>)

\* A mutant of FindSegment: only a segment that contains the word matches.
RECURSIVE FindSegmentContaining(_, _, _)
FindSegmentContaining(segmentedWords, boundaryWord, segmentIndex) ==
  IF segmentIndex >= Len(segmentedWords) THEN segmentIndex
  ELSE IF Includes(segmentedWords[segmentIndex + 1].text, boundaryWord)
  THEN segmentIndex
  ELSE FindSegmentContaining(segmentedWords, boundaryWord, segmentIndex + 1)

\* the while loop for one boundary: the index of the matching segment, or
\* the number of segments when none matches
RECURSIVE FindSegment(_, _, _)
FindSegment(segmentedWords, boundaryWord, segmentIndex) ==
  IF segmentIndex >= Len(segmentedWords) THEN segmentIndex
  ELSE IF Includes(segmentedWords[segmentIndex + 1].text, boundaryWord)
          \/ Includes(boundaryWord, segmentedWords[segmentIndex + 1].text)
  THEN segmentIndex
  ELSE FindSegment(segmentedWords, boundaryWord, segmentIndex + 1)

RECURSIVE MapFrom(_, _, _, _, _)
MapFrom(segmentedWords, ttsBoundaries, k, segmentIndex, ms) ==
  IF k > Len(ttsBoundaries) THEN ms
  ELSE LET found == FindSegment(segmentedWords, Trim(ttsBoundaries[k].word),
                                segmentIndex)
       IN  IF found < Len(segmentedWords)
           THEN MapFrom(segmentedWords, ttsBoundaries, k + 1, found + 1,
                  Append(ms, [segmentIndex |-> found,
                              start |-> ttsBoundaries[k].start,
                              duration |-> ttsBoundaries[k].duration,
                              word |-> segmentedWords[found + 1].text]))
           ELSE MapFrom(segmentedWords, ttsBoundaries, k + 1, found, ms)

MapTTSBoundaries(segmentedWords, ttsBoundaries) ==
  MapFrom(segmentedWords, ttsBoundaries, 1, 0, <<>>)

----------------------------------------------------------------------------
(* createTokenToSegmentMapping: first pass, direct matches *)

\* index of the first token whose text is ttsWord, -1 if there is none
FindExactToken(toks, ttsWord) ==
  LET hits == {k \in 0..(Len(toks) - 1) : toks[k + 1].text = ttsWord}
  IN  IF hits = {} THEN -1 ELSE CHOOSE k \in hits : \A j \in hits : k <= j

\* A mutant of DirectMapping: the duration is taken for the end.
DirectMappingEndIsDuration(toks, k, ttsMapping) ==
  [tokenIndex |-> k,
   segmentIndex |-> ttsMapping.segmentIndex,
   text |-> toks[k + 1].text,
   start |-> ttsMapping.start,
   end |-> ttsMapping.duration]

DirectMapping(toks, k, ttsMapping) ==
  [tokenIndex |-> k,
   segmentIndex |-> ttsMapping.segmentIndex,
   text |-> toks[k + 1].text,
   start |-> ttsMapping.start,
   end |-> ttsMapping.start + ttsMapping.duration]

\* A mutant of FirstPassFrom: a bound segment mapping is not marked as used.
RECURSIVE FirstPassFromUnmarked(_, _, _, _)
FirstPassFromUnmarked(toks, tts, i, st) ==
  IF i >= Len(tts) THEN st
  ELSE LET k == FindExactToken(toks, Trim(tts[i + 1].word))
       IN  FirstPassFromUnmarked(toks, tts, i + 1,
             IF k = -1 THEN st
             ELSE [mappings |-> Append(st.mappings, DirectMapping(toks, k, tts[i + 1])),
                   used |-> st.used])

RECURSIVE FirstPassFrom(_, _, _, _)
FirstPassFrom(toks, tts, i, st) ==
  IF i >= Len(tts) THEN st
  ELSE LET k == FindExactToken(toks, Trim(tts[i + 1].word))
       IN  FirstPassFrom(toks, tts, i + 1,
             IF k = -1 THEN st
             ELSE [mappings |-> Append(st.mappings, DirectMapping(toks, k, tts[i + 1])),
                   used |-> st.used \cup {i}])

\* A mutant of NewLocals: the locals outlive the call (module-level state).
StaleLocals == [mappings |-> mappings, used |-> usedTtsMappings]

\* the locals of a call as declared at its entry
NewLocals == [mappings |-> <<>>, used |-> {}]

FirstPass(toks, tts) == FirstPassFrom(toks, tts, 0, NewLocals)

----------------------------------------------------------------------------
(* createTokenToSegmentMapping: second pass, compound tokens *)

\* A mutant of Release: no collected word is found again in ttsMappings.
ReleaseNothing(used, collected) == used

\* the original indices of the collected words are released
Release(used, collected) == used \ {collected[k] : k \in 1..Len(collected)}

\* A mutant of CompoundMapping: the interval ends with the first collected word.
CompoundMappingFirstOnly(toks, t, tts, collected) ==
  [tokenIndex |-> t,
   segmentIndex |-> tts[collected[1] + 1].segmentIndex,
   text |-> toks[t + 1].text,
   start |-> tts[collected[1] + 1].start,
   end |-> tts[collected[1] + 1].start + tts[collected[1] + 1].duration]

CompoundMapping(toks, t, tts, collected) ==
  [tokenIndex |-> t,
   segmentIndex |-> tts[collected[1] + 1].segmentIndex,
   text |-> toks[t + 1].text,
   start |-> tts[collected[1] + 1].start,
   end |-> tts[collected[Len(collected)] + 1].start
           + tts[collected[Len(collected)] + 1].duration]

\* loc: the locals of one token's scan
\*   collected (indices of collectedWords), textSoFar, found, mappings, used
RECURSIVE ScanTtsWords(_, _, _, _, _)
ScanTtsWords(toks, t, tts, i, loc) ==
  IF i >= Len(tts) THEN loc
  ELSE IF i \in loc.used THEN ScanTtsWords(toks, t, tts, i + 1, loc)
  ELSE
    LET tokenText == toks[t + 1].text
        ttsWord == Trim(tts[i + 1].word)
    IN  IF Includes(tokenText, ttsWord)
           /\ StartsWith(tokenText, loc.textSoFar \o ttsWord)
        THEN LET collected == Append(loc.collected, i)
                 textSoFar == loc.textSoFar \o ttsWord
                 used == loc.used \cup {i}
             IN  IF textSoFar = tokenText
                 THEN [loc EXCEPT !.collected = collected,
                                  !.textSoFar = textSoFar,
                                  !.used = used,
                                  !.found = TRUE,
                                  !.mappings = Append(loc.mappings,
                                     CompoundMapping(toks, t, tts, collected))]
                 ELSE ScanTtsWords(toks, t, tts, i + 1,
                        [loc EXCEPT !.collected = collected,
                                    !.textSoFar = textSoFar,
                                    !.used = used])
        ELSE IF Len(loc.collected) > 0
        THEN ScanTtsWords(toks, t, tts, i + 1,
               [loc EXCEPT !.collected = <<>>,
                           !.textSoFar = <<>>,
                           !.used = Release(loc.used, loc.collected)])
        ELSE ScanTtsWords(toks, t, tts, i + 1, loc)

\* one iteration of the second pass, for the token at index t
SecondPassToken(toks, t, tts, st) ==
  IF \E k \in 1..Len(st.mappings) : st.mappings[k].tokenIndex = t
  THEN st
  ELSE LET loc == ScanTtsWords(toks, t, tts, 0,
                    [collected |-> <<>>, textSoFar |-> <<>>, found |-> FALSE,
                     mappings |-> st.mappings, used |-> st.used])
       IN  IF ~loc.found /\ Len(loc.collected) > 0
           THEN [mappings |-> loc.mappings,
                 used |-> Release(loc.used, loc.collected)]
           ELSE [mappings |-> loc.mappings, used |-> loc.used]

----------------------------------------------------------------------------
(* createTokenToSegmentMapping: gap fill *)

PunctuationDuration == 50
DurationCap == 500
DefaultDuration == 500

\* A mutant of TotalDuration: the end of the last segment mapping.
TotalDurationOfLast(tts) ==
  IF Len(tts) > 0 THEN tts[Len(tts)].start + tts[Len(tts)].duration ELSE 0

\* A mutant of TotalDuration: no total without segments.
TotalDurationWithSegments(tts) ==
  IF Len(tts) > 0 /\ Len(segments) > 0
  THEN Max({tts[k].start + tts[k].duration : k \in 1..Len(tts)})
  ELSE 0

\* Math.max(...ttsMappings.map(m => m.start + m.duration)), 0 for no mappings
TotalDuration(tts) ==
  IF Len(tts) > 0
  THEN Max({tts[k].start + tts[k].duration : k \in 1..Len(tts)})
  ELSE 0

\* the estimated mapping of the unmapped token at index t
EstimatedMapping(toks, t, sortedMappings, totalDuration) ==
  LET tokenText == toks[t + 1].text
      count == Len(toks)
      before == {k \in 1..Len(sortedMappings) : sortedMappings[k].tokenIndex < t}
      after == {k \in 1..Len(sortedMappings) : sortedMappings[k].tokenIndex > t}
      \* sortedMappings.filter(m => m.tokenIndex < tokenIndex).pop()
      prevMapping == sortedMappings[Max(before)]
      \* sortedMappings.find(m => m.tokenIndex > tokenIndex)
      nextMapping == sortedMappings[CHOOSE k \in after : \A j \in after : k <= j]
      avgDuration == MathMin(Ms(DurationCap), totalDuration \div count)
      gap == nextMapping.tokenIndex - prevMapping.tokenIndex
      position == t - prevMapping.tokenIndex
      timeGap == nextMapping.start - prevMapping.end
      punctuationStart ==
        IF before # {} THEN prevMapping.end
        ELSE IF after # {} THEN MathMax(0, nextMapping.start - Ms(PunctuationDuration))
        ELSE 0
      estimatedStart ==
        IF before # {} /\ after # {}
        THEN prevMapping.end + ((position * timeGap) \div gap)
        ELSE IF before # {} THEN prevMapping.end
        ELSE IF after # {} THEN MathMax(0, nextMapping.start - avgDuration)
        ELSE (t * totalDuration) \div count
      estimatedDuration ==
        IF before # {} /\ after # {} THEN timeGap \div gap
        ELSE IF before # {} \/ after # {} THEN avgDuration
        ELSE totalDuration \div count
  IN  IF IsPunctuation(tokenText)
      THEN [tokenIndex |-> t, segmentIndex |-> -1, text |-> tokenText,
            start |-> punctuationStart,
            end |-> punctuationStart + Ms(PunctuationDuration)]
      ELSE [tokenIndex |-> t, segmentIndex |-> -1, text |-> tokenText,
            start |-> estimatedStart,
            end |-> estimatedStart + estimatedDuration]

RECURSIVE FillFrom(_, _, _, _, _, _)
FillFrom(toks, t, mapped, sortedMappings, totalDuration, ms) ==
  IF t >= Len(toks) THEN ms
  ELSE FillFrom(toks, t + 1, mapped, sortedMappings, totalDuration,
         IF t \in mapped THEN ms
         ELSE Append(ms, EstimatedMapping(toks, t, sortedMappings, totalDuration)))

\* A mutant of UniformMapping: the token index is given for the segment index.
UniformMappingUnmarked(toks, t, avgDuration) ==
  [tokenIndex |-> t, segmentIndex |-> t, text |-> toks[t + 1].text,
   start |-> t * avgDuration,
   end |-> (t + 1) * avgDuration]

\* the uniform distribution used when no token was mapped
UniformMapping(toks, t, avgDuration) ==
  [tokenIndex |-> t, segmentIndex |-> -1, text |-> toks[t + 1].text,
   start |-> t * avgDuration,
   end |-> (t + 1) * avgDuration]

\* A mutant of UniformAvgDuration: no default for a total duration of 0.
UniformAvgDurationNoDefault(toks, totalDuration) == totalDuration \div Len(toks)

UniformAvgDuration(toks, totalDuration) ==
  IF totalDuration > 0 THEN totalDuration \div Len(toks) ELSE Ms(DefaultDuration)

\* from the sort that follows the second pass to the end of the gap fill
GapFill(toks, tts, ms) ==
  LET sorted == SortByStart(ms)
      mappedTokens == {sorted[k].tokenIndex : k \in 1..Len(sorted)}
      totalDuration == TotalDuration(tts)
  IN  IF Len(sorted) > 0
      THEN FillFrom(toks, 0, mappedTokens, SortByTokenIndex(sorted),
                    totalDuration, sorted)
      ELSE [k \in 1..Len(toks) |->
              UniformMapping(toks, k - 1, UniformAvgDuration(toks, totalDuration))]

----------------------------------------------------------------------------
(* TokenizationService.getTokenAtTime *)

\* A mutant of GetTokenAtTimeFrom: the end of an interval is exclusive.
RECURSIVE GetTokenAtTimeEndExclusive(_, _, _)
GetTokenAtTimeEndExclusive(ms, t, k) ==
  IF k > Len(ms) THEN -1
  ELSE IF t >= ms[k].start /\ t < ms[k].end THEN ms[k].tokenIndex
  ELSE GetTokenAtTimeEndExclusive(ms, t, k + 1)

\* the for loop over the mappings, from the k-th on
RECURSIVE GetTokenAtTimeFrom(_, _, _)
GetTokenAtTimeFrom(ms, t, k) ==
  IF k > Len(ms) THEN -1
  ELSE IF t >= ms[k].start /\ t <= ms[k].end THEN ms[k].tokenIndex
  ELSE GetTokenAtTimeFrom(ms, t, k + 1)

\* A mutant of GetTokenAtTime: a time that no mapping contains is answered
\* with the last token.
GetTokenAtTimeOrLast(ms, t) ==
  LET found == GetTokenAtTimeFrom(ms, t, 1)
  IN  IF found = -1 /\ Len(ms) > 0 THEN ms[Len(ms)].tokenIndex ELSE found

GetTokenAtTime(ms, t) == GetTokenAtTimeFrom(ms, t, 1)

----------------------------------------------------------------------------
(* Inputs *)

TokenTexts == {<<"a">>, <<"b">>, <<"a", "b">>, <<",">>}
TtsWords == {<<"a">>, <<"b", " ">>}
\* <<start, duration>> in ms
Timings == {<<0, 0>>, <<0, 200>>, <<200, 180>>}

SeqsUpTo(S, n) == UNION {[1..k -> S] : k \in 0..n}

\* token lists as tokenize numbers them: index is the position
TokenLists(n) ==
  {[k \in 1..Len(texts) |-> [text |-> texts[k], word |-> NoWord, index |-> k - 1]] :
     texts \in SeqsUpTo(TokenTexts, n)}

\* segment mappings as mapTTSBoundaries numbers them: segmentIndex increases
TtsMappingLists(n) ==
  {[k \in 1..Len(ws) |->
      [segmentIndex |-> k - 1, start |-> Ms(ws[k][2][1]),
       duration |-> Ms(ws[k][2][2]), word |-> ws[k][1]]] :
     ws \in SeqsUpTo(TtsWords \X Timings, n)}

----------------------------------------------------------------------------
(* The call of createTokenToSegmentMapping, step by step *)

NoResult == <<"none">>

\* nothing located, no page rendered, the store as clearFlashcards leaves it
InitAside ==
  /\ currentTimeMs = 0
  /\ located = NoResult
  /\ frontendTokens = NoResult
  /\ store = <<>>
  /\ nextId = 1
  /\ requests = <<>>
  /\ response = NoResult
  /\ interpolation = [prevEnd |-> 0, nextStart |-> 0, gap |-> 1, estimates |-> <<>>]
  /\ scanIndex = 0
  /\ ttsCache = {}
  /\ nextCacheId = 1
  /\ handlers = <<>>

InitCall(toks, tts) ==
  /\ text = <<>>
  /\ words = <<>>
  /\ cut = <<>>
  /\ segments = <<>>
  /\ wordTimings = <<>>
  /\ tokens = toks
  /\ ttsMappings = tts
  /\ mappings = <<>>
  /\ usedTtsMappings = {}
  /\ tokenIndex = 0
  /\ pc = "call"
  /\ callNo = 1
  /\ first = [tokens |-> toks, ttsMappings |-> tts, result |-> NoResult]
  /\ InitAside

Init ==
  \E toks \in TokenLists(MaxTokens) : \E tts \in TtsMappingLists(MaxMappings) :
    InitCall(toks, tts)

\* entry and first pass
FirstPassStep ==
  /\ pc = "call"
  /\ LET st == FirstPass(tokens, ttsMappings)
     IN  /\ mappings' = st.mappings
         /\ usedTtsMappings' = st.used
  /\ tokenIndex' = 0
  /\ pc' = "second"
  /\ UNCHANGED <<aside, request, tokens, ttsMappings, callNo, first>>

\* one iteration of the second pass
SecondPassStep ==
  /\ pc = "second"
  /\ tokenIndex < Len(tokens)
  /\ LET st == SecondPassToken(tokens, tokenIndex, ttsMappings,
                 [mappings |-> mappings, used |-> usedTtsMappings])
     IN  /\ mappings' = st.mappings
         /\ usedTtsMappings' = st.used
  /\ tokenIndex' = tokenIndex + 1
  /\ UNCHANGED <<aside, request, tokens, ttsMappings, pc, callNo, first>>

\* sort, gap fill, final sort and return
GapFillStep ==
  /\ pc = "second"
  /\ tokenIndex >= Len(tokens)
  /\ mappings' = SortByStart(GapFill(tokens, ttsMappings, mappings))
  /\ pc' = "done"
  /\ UNCHANGED <<aside, request, tokens, ttsMappings, usedTtsMappings, tokenIndex,
                 callNo, first>>

Next == FirstPassStep \/ SecondPassStep \/ GapFillStep

Spec == Init /\ [][Next]_vars

----------------------------------------------------------------------------
(* Repeated calls: the caller calls again, with the arguments of the first  *)
(* call or with other ones.  The locals of the finished call are what a    *)
(* call would find if they outlived it.                                    *)

Reverse(seq) == [k \in 1..Len(seq) |-> seq[Len(seq) + 1 - k]]
Renumber(toks) == [k \in 1..Len(toks) |-> [toks[k] EXCEPT !.index = k - 1]]

\* the arguments of a later call
LaterArguments ==
  { <<first.tokens, first.ttsMappings>>,
    <<Renumber(Reverse(first.tokens)), first.ttsMappings>>,
    <<first.tokens, Reverse(first.ttsMappings)>>,
    <<first.tokens, <<>> >> }

InitRepeat ==
  \E toks \in TokenLists(RepeatTokens) : \E tts \in TtsMappingLists(RepeatMappings) :
    InitCall(toks, tts)

CallAgain ==
  /\ pc = "done"
  /\ callNo < MaxCalls
  /\ first' = IF callNo = 1 THEN [first EXCEPT !.result = mappings] ELSE first
  /\ \E args \in LaterArguments :
       /\ tokens' = args[1]
       /\ ttsMappings' = args[2]
  /\ callNo' = callNo + 1
  /\ pc' = "call"
  /\ UNCHANGED <<aside, request, mappings, usedTtsMappings, tokenIndex>>

NextRepeat == FirstPassStep \/ SecondPassStep \/ GapFillStep \/ CallAgain

SpecRepeat == InitRepeat /\ [][NextRepeat]_vars

----------------------------------------------------------------------------
(* The player asks for the token at a time of the playback, with the list  *)
(* that createTokenToSegmentMapping returned.                              *)

\* the times asked for: at, just before and just after every bound
ProbeTimes(ms) ==
  {0} \cup UNION {{ms[k].start - 1, ms[k].start, ms[k].start + 1,
                   ms[k].end - 1, ms[k].end, ms[k].end + 1} : k \in 1..Len(ms)}

InitLocate ==
  \E toks \in TokenLists(LocateTokens) : \E tts \in TtsMappingLists(LocateMappings) :
    InitCall(toks, tts)

GetTokenAtTimeStep ==
  /\ pc \in {"done", "located"}
  /\ \E t \in ProbeTimes(mappings) :
       /\ currentTimeMs' = t
       /\ located' = GetTokenAtTime(mappings, t)
  /\ pc' = "located"
  /\ UNCHANGED <<request, tokens, ttsMappings, mappings, usedTtsMappings,
                 tokenIndex, callNo, first, frontendTokens, store, nextId,
                 requests, response,
                 outside>>

NextLocate == FirstPassStep \/ SecondPassStep \/ GapFillStep \/ GetTokenAtTimeStep

SpecLocate == InitLocate /\ [][NextLocate]_vars

----------------------------------------------------------------------------
(* POST /api/tts, cache miss: segmentText, synthesis, mapTTSBoundaries,     *)
(* tokenize, createTokenToSegmentMapping                                   *)

TextChars == HanChars \cup PunctuationChars \cup WhiteSpace

\* body('text').isString().trim().notEmpty()
Texts ==
  {t \in SeqsUpTo(TextChars, MaxText) : t # <<>> /\ Trim(t) = t}

\* req.body.words: the id of a word is its position
WordLists ==
  {[k \in 1..Len(ks) |-> [id |-> k, simplified |-> ks[k]]] :
     ks \in SeqsUpTo({<<"a">>, <<"a", "b">>}, MaxWords)}

\* the ways to cut a string into consecutive non-empty pieces
RECURSIVE Segmentations(_)
Segmentations(str) ==
  IF str = <<>> THEN {<<>>}
  ELSE UNION {{<<SubSeq(str, 1, k)>> \o rest :
                 rest \in Segmentations(SubSeq(str, k + 1, Len(str)))} :
              k \in 1..Len(str)}

TicksPerMs == 10000

\* the speech engine: how long it speaks a character, in ms
EngineCharMs(ch) == IF ch = "a" THEN 150 ELSE IF ch = "b" THEN 160 ELSE 100

RECURSIVE EngineWordMs(_)
EngineWordMs(w) ==
  IF w = <<>> THEN 0 ELSE EngineCharMs(Head(w)) + EngineWordMs(Tail(w))

\* the wordBoundary events of the engine for its own cut of the text, in
\* ticks, one after the other
RECURSIVE EngineEventsFrom(_, _, _)
EngineEventsFrom(ws, k, offsetMs) ==
  IF k > Len(ws) THEN <<>>
  ELSE <<[text |-> ws[k], audioOffset |-> offsetMs * TicksPerMs,
          duration |-> EngineWordMs(ws[k]) * TicksPerMs]>>
       \o EngineEventsFrom(ws, k + 1, offsetMs + EngineWordMs(ws[k]))

\* the engine reports no word that is only whitespace
EngineEvents(txt) ==
  {EngineEventsFrom(ws, 1, 0) :
     ws \in {c \in Segmentations(txt) : \A k \in 1..Len(c) : Trim(c[k]) # <<>>}}

\* synthesizer.wordBoundary: ticks to ms
WordBoundary(event) ==
  [word |-> event.text,
   start |-> (event.audioOffset * Scale) \div TicksPerMs,
   duration |-> (event.duration * Scale) \div TicksPerMs,
   audioOffset |-> event.audioOffset]

InitRequest ==
  /\ text \in Texts
  /\ words \in WordLists
  /\ cut = <<>>
  /\ segments = <<>>
  /\ wordTimings = <<>>
  /\ tokens = <<>>
  /\ ttsMappings = <<>>
  /\ mappings = <<>>
  /\ usedTtsMappings = {}
  /\ tokenIndex = 0
  /\ pc = "segment"
  /\ callNo = 1
  /\ first = [tokens |-> <<>>, ttsMappings |-> <<>>, result |-> NoResult]
  /\ InitAside

SegmentTextStep ==
  /\ pc = "segment"
  /\ \E c \in Segmentations(text) :
       /\ cut' = c
       /\ segments' = SegmentText(text, c)
  /\ pc' = "synthesize"
  /\ UNCHANGED <<aside, text, words, wordTimings, tokens, ttsMappings, mappings,
                 usedTtsMappings, tokenIndex, callNo, first>>

SynthesizeStep ==
  /\ pc = "synthesize"
  /\ \E events \in EngineEvents(text) :
       wordTimings' = [k \in 1..Len(events) |-> WordBoundary(events[k])]
  /\ pc' = "map"
  /\ UNCHANGED <<aside, text, words, cut, segments, tokens, ttsMappings, mappings,
                 usedTtsMappings, tokenIndex, callNo, first>>

MapBoundariesStep ==
  /\ pc = "map"
  /\ ttsMappings' = MapTTSBoundaries(segments, wordTimings)
  /\ pc' = "tokenize"
  /\ UNCHANGED <<aside, request, tokens, mappings, usedTtsMappings, tokenIndex,
                 callNo, first>>

TokenizeStep ==
  /\ pc = "tokenize"
  /\ tokens' = Tokenize(text, words)
  /\ pc' = "call"
  /\ UNCHANGED <<aside, request, ttsMappings, mappings, usedTtsMappings, tokenIndex,
                 callNo, first>>

----------------------------------------------------------------------------
(* The mapper with an engine that reports what it likes: words that are    *)
(* not a cut of the text, callbacks out of order, negative offsets and     *)
(* durations.                                                              *)

MapTexts == {t \in SeqsUpTo(HanChars, MaxText) : t # <<>>}

EventWords == {<<"a">>, <<"b", " ">>, <<",">>, <<"a", "b">>}

\* <<audioOffset, duration>> of an event, in ms
EventTimings == {<<0, 150>>, <<150, 160>>, <<0 - 150, 150>>, <<0, 0 - 10>>}

RawEvents ==
  {[text |-> w, audioOffset |-> tm[1] * TicksPerMs, duration |-> tm[2] * TicksPerMs] :
     w \in EventWords, tm \in EventTimings}

InitMap ==
  /\ text \in MapTexts
  /\ words = <<>>
  /\ cut = <<>>
  /\ segments = <<>>
  /\ wordTimings = <<>>
  /\ tokens = <<>>
  /\ ttsMappings = <<>>
  /\ mappings = <<>>
  /\ usedTtsMappings = {}
  /\ tokenIndex = 0
  /\ pc = "segment"
  /\ callNo = 1
  /\ first = [tokens |-> <<>>, ttsMappings |-> <<>>, result |-> NoResult]
  /\ InitAside

\* the wordBoundary callbacks of one synthesis, pushed in the order of arrival
WordBoundariesStep ==
  /\ pc = "synthesize"
  /\ \E events \in SeqsUpTo(RawEvents, MaxEvents) :
       wordTimings' = [k \in 1..Len(events) |-> WordBoundary(events[k])]
  /\ pc' = "map"
  /\ UNCHANGED <<aside, text, words, cut, segments, tokens, ttsMappings, mappings,
                 usedTtsMappings, tokenIndex, callNo, first>>

NextMap == SegmentTextStep \/ WordBoundariesStep \/ MapBoundariesStep

SpecMap == InitMap /\ [][NextMap]_vars

----------------------------------------------------------------------------
(* The page tokenizes the content of an article with its words, and the    *)
(* server tokenizes the same content with the same words.                  *)

\* any content, the empty one and untrimmed ones included
Contents == SeqsUpTo(TextChars, MaxText)

InitTokenize ==
  /\ text \in Contents
  /\ words \in WordLists
  /\ cut = <<>>
  /\ segments = <<>>
  /\ wordTimings = <<>>
  /\ tokens = <<>>
  /\ ttsMappings = <<>>
  /\ mappings = <<>>
  /\ usedTtsMappings = {}
  /\ tokenIndex = 0
  /\ pc = "render"
  /\ callNo = 1
  /\ first = [tokens |-> <<>>, ttsMappings |-> <<>>, result |-> NoResult]
  /\ InitAside

\* ArticleContent: useMemo(() => tokenize(content, words))
FrontendTokenizeStep ==
  /\ pc = "render"
  /\ frontendTokens' = FrontendTokenize(text, words)
  /\ pc' = "tokenize"
  /\ UNCHANGED <<request, tokens, ttsMappings, mappings, usedTtsMappings,
                 tokenIndex, callNo, first, currentTimeMs, located, store,
                 nextId, requests, response,
                 outside>>

NextTokenize == FrontendTokenizeStep \/ TokenizeStep

SpecTokenize == InitTokenize /\ [][NextTokenize]_vars

----------------------------------------------------------------------------
(* The mock flashcard store and the routes /mock/flashcards.  A handler    *)
(* runs to its end without awaiting; createdAt, the time of the insertion, *)
(* is left out of the records.                                             *)

MockUser == "mock-user"

\* req.body.wordId: 0, 1, 2, 1.5, 'nope'
WordIdInputs ==
  {[typeof |-> "number", isInteger |-> TRUE, value |-> v] : v \in 0..2}
  \cup {[typeof |-> "number", isInteger |-> FALSE, value |-> 1],
        [typeof |-> "string", isInteger |-> FALSE, value |-> 0]}

\* a request without a body
NoWordId == [typeof |-> "undefined", isInteger |-> FALSE, value |-> 0]

\* the negation of the test that answers 400
IsPositiveInteger(wordId) ==
  ~(wordId.typeof # "number" \/ ~wordId.isInteger \/ wordId.value <= 0)

\* store.splice(i, 1), i from 1
Splice(st, i) == SubSeq(st, 1, i - 1) \o SubSeq(st, i + 1, Len(st))

\* A mutant of RemoveFlashcardFrom: the loop ends at the first record removed.
RECURSIVE RemoveFlashcardOnce(_, _, _, _, _)
RemoveFlashcardOnce(st, userId, wordId, i, removed) ==
  IF i < 1 THEN [store |-> st, removed |-> removed]
  ELSE IF st[i].userId = userId /\ st[i].wordId = wordId
  THEN [store |-> Splice(st, i), removed |-> removed + 1]
  ELSE RemoveFlashcardOnce(st, userId, wordId, i - 1, removed)

\* the loop of removeFlashcard, from the last record down
RECURSIVE RemoveFlashcardFrom(_, _, _, _, _)
RemoveFlashcardFrom(st, userId, wordId, i, removed) ==
  IF i < 1 THEN [store |-> st, removed |-> removed]
  ELSE IF st[i].userId = userId /\ st[i].wordId = wordId
  THEN RemoveFlashcardFrom(Splice(st, i), userId, wordId, i - 1, removed + 1)
  ELSE RemoveFlashcardFrom(st, userId, wordId, i - 1, removed)

RemoveFlashcard(st, userId, wordId) ==
  RemoveFlashcardFrom(st, userId, wordId, Len(st), 0)

\* the record that addFlashcard makes
FlashcardRecord(id, userId, wordId) ==
  [id |-> id, userId |-> userId, wordId |-> wordId]

BadRequest == [status |-> 400, body |-> "wordId must be a positive integer"]

InitMock ==
  /\ text = <<>>
  /\ words = <<>>
  /\ cut = <<>>
  /\ segments = <<>>
  /\ wordTimings = <<>>
  /\ tokens = <<>>
  /\ ttsMappings = <<>>
  /\ mappings = <<>>
  /\ usedTtsMappings = {}
  /\ tokenIndex = 0
  /\ pc = "mock"
  /\ callNo = 1
  /\ first = [tokens |-> <<>>, ttsMappings |-> <<>>, result |-> NoResult]
  /\ InitAside

\* POST /mock/flashcards
PostFlashcard ==
  /\ pc = "mock"
  /\ Len(requests) < MaxRequests
  /\ \E wordId \in WordIdInputs :
       /\ requests' = Append(requests, [method |-> "POST", wordId |-> wordId])
       /\ IF IsPositiveInteger(wordId)
          THEN LET rec == FlashcardRecord(nextId, MockUser, wordId.value)
               IN  /\ store' = Append(store, rec)
                   /\ nextId' = nextId + 1
                   /\ response' = [status |-> 201, body |-> rec]
          ELSE /\ response' = BadRequest
               /\ UNCHANGED <<store, nextId>>
  /\ UNCHANGED <<request, tokens, ttsMappings, mappings, usedTtsMappings,
                 tokenIndex, pc, callNo, first, currentTimeMs, located,
                 frontendTokens,
                 outside>>

\* DELETE /mock/flashcards
DeleteFlashcard ==
  /\ pc = "mock"
  /\ Len(requests) < MaxRequests
  /\ \E wordId \in WordIdInputs :
       /\ requests' = Append(requests, [method |-> "DELETE", wordId |-> wordId])
       /\ IF IsPositiveInteger(wordId)
          THEN LET res == RemoveFlashcard(store, MockUser, wordId.value)
               IN  /\ store' = res.store
                   /\ response' = [status |-> 200,
                                   body |-> [removed |-> res.removed]]
          ELSE /\ response' = BadRequest
               /\ store' = store
  /\ UNCHANGED <<request, tokens, ttsMappings, mappings, usedTtsMappings,
                 tokenIndex, pc, callNo, first, currentTimeMs, located,
                 frontendTokens, nextId,
                 outside>>

\* GET /mock/flashcards: listFlashcards answers a copy of the store
GetFlashcards ==
  /\ pc = "mock"
  /\ Len(requests) < MaxRequests
  /\ requests' = Append(requests, [method |-> "GET", wordId |-> NoWordId])
  /\ response' = [status |-> 200, body |-> store]
  /\ UNCHANGED <<request, tokens, ttsMappings, mappings, usedTtsMappings,
                 tokenIndex, pc, callNo, first, currentTimeMs, located,
                 frontendTokens, store, nextId,
                 outside>>

\* clearFlashcards, as the tests call it before each case
ClearFlashcards ==
  /\ pc = "mock"
  /\ requests # <<>>
  /\ store' = <<>>
  /\ nextId' = 1
  /\ requests' = <<>>
  /\ response' = NoResult
  /\ UNCHANGED <<request, tokens, ttsMappings, mappings, usedTtsMappings,
                 tokenIndex, pc, callNo, first, currentTimeMs, located,
                 frontendTokens,
                 outside>>

NextMock == PostFlashcard \/ DeleteFlashcard \/ GetFlashcards \/ ClearFlashcards

SpecMock == InitMock /\ [][NextMock]_vars

NextRequest ==
  \/ SegmentTextStep
  \/ SynthesizeStep
  \/ MapBoundariesStep
  \/ TokenizeStep
  \/ FirstPassStep
  \/ SecondPassStep
  \/ GapFillStep

SpecRequest == InitRequest /\ [][NextRequest]_vars

----------------------------------------------------------------------------
(* Properties of the list returned by createTokenToSegmentMapping *)

Done == pc = "done"
TokenIndices == 0..(Len(tokens) - 1)
MappingsOf(t) == {k \in 1..Len(mappings) : mappings[k].tokenIndex = t}
Evidenced(m) == m.segmentIndex >= 0
EndOf(ttsMapping) == ttsMapping.start + ttsMapping.duration

NonDecreasingStarts ==
  \A k \in 1..(Len(ttsMappings) - 1) :
    ttsMappings[k].start <= ttsMappings[k + 1].start

\* C1 (totality): the returned list has exactly one TokenMapping for every
\* token index 0..N-1, also when several segment mappings carry the same word.
C1_Totality ==
  Done => /\ Len(mappings) = Len(tokens)
          /\ \A t \in TokenIndices : Cardinality(MappingsOf(t)) = 1

\* C2 (interval validity): for segment mappings of non-negative start and
\* duration and non-decreasing starts, every returned TokenMapping has
\* start <= end and end >= 0.
C2_IntervalValidity ==
  (Done /\ NonDecreasingStarts) =>
    \A k \in 1..Len(mappings) :
      mappings[k].start <= mappings[k].end /\ mappings[k].end >= 0

\* C3 (order): the returned list is ordered by non-decreasing start,
\* the gap-filled mappings included.
C3_SortedByStart ==
  Done => \A k \in 1..(Len(mappings) - 1) :
            mappings[k].start <= mappings[k + 1].start

\* an estimated mapping, appended after the evidenced ones, was moved before one
C3_Witness ==
  /\ Done
  /\ \E k, j \in 1..Len(mappings) :
       /\ k < j
       /\ ~Evidenced(mappings[k])
       /\ Evidenced(mappings[j])
       /\ mappings[k].start < mappings[j].start

UniqueTokenText(t) ==
  \A u \in TokenIndices : tokens[u + 1].text = tokens[t + 1].text => u = t
UniqueTtsWord(i) ==
  \A j \in 1..Len(ttsMappings) :
    Trim(ttsMappings[j].word) = Trim(ttsMappings[i].word) => j = i

ExactMatchCase(t, i) ==
  /\ tokens[t + 1].text = Trim(ttsMappings[i].word)
  /\ UniqueTokenText(t)
  /\ UniqueTtsWord(i)

\* C4 (exact-match fidelity): when exactly one token has text w and exactly
\* one segment mapping has trimmed word w, the TokenMapping of that token has
\* the start, start + duration and segmentIndex of that segment mapping.
C4_ExactMatchFidelity ==
  Done =>
    \A t \in TokenIndices : \A i \in 1..Len(ttsMappings) :
      ExactMatchCase(t, i) =>
        /\ MappingsOf(t) # {}
        /\ \A k \in MappingsOf(t) :
             /\ mappings[k].start = ttsMappings[i].start
             /\ mappings[k].end = EndOf(ttsMappings[i])
             /\ mappings[k].segmentIndex = ttsMappings[i].segmentIndex

\* the word needs trimming, and other tokens and mappings are present
C4_Witness ==
  /\ Done
  /\ Len(tokens) >= 3
  /\ Len(ttsMappings) >= 3
  /\ \E t \in TokenIndices : \E i \in 1..Len(ttsMappings) :
       /\ ExactMatchCase(t, i)
       /\ ttsMappings[i].word # Trim(ttsMappings[i].word)
       /\ ttsMappings[i].duration > 0

----------------------------------------------------------------------------
(* Compound accumulation *)

\* the locals when the second pass reaches the token at index t
RECURSIVE StateBeforeToken(_, _, _)
StateBeforeToken(toks, tts, t) ==
  IF t = 0 THEN FirstPass(toks, tts)
  ELSE SecondPassToken(toks, t - 1, tts, StateBeforeToken(toks, tts, t - 1))

\* the indices of the unused segment mappings, in list order
RECURSIVE UnusedFrom(_, _, _)
UnusedFrom(used, i, n) ==
  IF i >= n THEN <<>>
  ELSE IF i \in used THEN UnusedFrom(used, i + 1, n)
  ELSE <<i>> \o UnusedFrom(used, i + 1, n)

\* the trimmed words of u[p..q], concatenated
RECURSIVE ConcatWords(_, _, _)
ConcatWords(u, p, q) ==
  IF p > q THEN <<>>
  ELSE Trim(ttsMappings[u[p] + 1].word) \o ConcatWords(u, p + 1, q)

NoExactWord(t) ==
  \A i \in 1..Len(ttsMappings) : Trim(ttsMappings[i].word) # tokens[t + 1].text

\* the token at index t has one TokenMapping, spanning u[p]..u[q]
SpansRun(t, u, p, q) ==
  /\ Cardinality(MappingsOf(t)) = 1
  /\ \A k \in MappingsOf(t) :
       /\ mappings[k].start = ttsMappings[u[p] + 1].start
       /\ mappings[k].end = EndOf(ttsMappings[u[q] + 1])
       /\ mappings[k].segmentIndex = ttsMappings[u[p] + 1].segmentIndex

\* C5 as stated (compound accumulation): a token that no mapping matches
\* exactly and that is the concatenation of the words of consecutive unused
\* segment mappings gets the interval from the start of the first to the end
\* of the last of them, and the segmentIndex of the first.
C5_AnyRun ==
  Done =>
    \A t \in TokenIndices :
      LET u == UnusedFrom(StateBeforeToken(tokens, ttsMappings, t).used,
                          0, Len(ttsMappings))
          runs == {r \in (1..Len(u)) \X (1..Len(u)) :
                     r[1] <= r[2]
                     /\ ConcatWords(u, r[1], r[2]) = tokens[t + 1].text}
      IN  (NoExactWord(t) /\ runs # {}) =>
            \E r \in runs : SpansRun(t, u, r[1], r[2])

\* the first unused mapping whose trimmed word is a prefix of the token text
FirstPrefix(t, u) ==
  LET ps == {p \in 1..Len(u) :
               StartsWith(tokens[t + 1].text, Trim(ttsMappings[u[p] + 1].word))}
  IN  IF ps = {} THEN 0 ELSE CHOOSE p \in ps : \A r \in ps : p <= r

\* the ends of the runs from u[p] that concatenate to the token text
RunEnds(t, u, p) ==
  IF p = 0 THEN {}
  ELSE {q \in p..Len(u) : ConcatWords(u, p, q) = tokens[t + 1].text}

\* C5 as amended: a token that no mapping matches exactly gets that interval
\* and segmentIndex when the run of consecutive unused mappings that begins
\* at the first unused mapping whose trimmed word is a prefix of the token
\* text concatenates to the token text.
C5_RunFromFirstPrefix ==
  Done =>
    \A t \in TokenIndices :
      LET u == UnusedFrom(StateBeforeToken(tokens, ttsMappings, t).used,
                          0, Len(ttsMappings))
          p == FirstPrefix(t, u)
          ends == RunEnds(t, u, p)
      IN  (NoExactWord(t) /\ ends # {}) =>
            SpansRun(t, u, p, CHOOSE q \in ends : \A r \in ends : q <= r)

\* the token "ab" with the unused mappings {"a",0,200}, {"b",200,180}, which
\* follow an unused mapping that the scan passes over: the interval is [0, 380]
C5_Witness ==
  /\ Done
  /\ Len(tokens) = 2
  /\ tokens[2].text = <<"a", "b">>
  /\ Len(ttsMappings) = 3
  /\ usedTtsMappings = {1, 2}
  /\ Trim(ttsMappings[2].word) = <<"a">>
  /\ ttsMappings[2].start = 0 /\ ttsMappings[2].duration = Ms(200)
  /\ Trim(ttsMappings[3].word) = <<"b">>
  /\ ttsMappings[3].start = Ms(200) /\ ttsMappings[3].duration = Ms(180)
  /\ \E k \in MappingsOf(1) :
       /\ mappings[k].start = 0
       /\ mappings[k].end = Ms(380)
       /\ mappings[k].segmentIndex = 1

----------------------------------------------------------------------------
(* Fallbacks *)

\* C7 as stated (graceful total failure): with no segment mappings and
\* N >= 1 tokens, N mappings are returned and every interval is [0, 0].
C7_ZeroIntervals ==
  (Done /\ Len(ttsMappings) = 0 /\ Len(tokens) >= 1) =>
    /\ Len(mappings) = Len(tokens)
    /\ \A k \in 1..Len(mappings) : mappings[k].start = 0 /\ mappings[k].end = 0

\* C7 as amended: with no segment mappings and N >= 1 tokens, N mappings are
\* returned, in token order, and token i has the interval
\* [500 i, 500 (i + 1)] and segmentIndex -1.
C7_DefaultIntervals ==
  (Done /\ Len(ttsMappings) = 0 /\ Len(tokens) >= 1) =>
    /\ Len(mappings) = Len(tokens)
    /\ \A k \in 1..Len(mappings) :
         /\ mappings[k].tokenIndex = k - 1
         /\ mappings[k].segmentIndex = -1
         /\ mappings[k].start = Ms(DefaultDuration) * (k - 1)
         /\ mappings[k].end = Ms(DefaultDuration) * k

C7_Witness ==
  /\ Done
  /\ Len(ttsMappings) = 0
  /\ Len(tokens) = MaxTokens
  /\ Len(mappings) = MaxTokens

\* no token was bound by the first or the second pass
NothingBound == usedTtsMappings = {}

\* token i of N has the interval [i D / N, (i + 1) D / N], estimated, and
\* the list is in token order
UniformOver(d) ==
  /\ Len(mappings) = Len(tokens)
  /\ \A k \in 1..Len(mappings) :
       /\ mappings[k].tokenIndex = k - 1
       /\ mappings[k].segmentIndex = -1
       /\ mappings[k].start * Len(tokens) = (k - 1) * d
       /\ mappings[k].end * Len(tokens) = k * d

\* C8 as stated (uniform fallback): when segment mappings exist but no token
\* is bound, token i of N gets [i D / N, (i + 1) D / N] with segmentIndex -1,
\* D the largest start + duration of the segment mappings.
C8_UniformAlways ==
  (Done /\ Len(ttsMappings) > 0 /\ NothingBound /\ Len(tokens) >= 1) =>
    UniformOver(Max({EndOf(ttsMappings[i]) : i \in 1..Len(ttsMappings)}))

\* C8 as amended: the same, when D is positive; when D is 0, token i gets
\* [500 i, 500 (i + 1)].
C8_UniformPositive ==
  (Done /\ Len(ttsMappings) > 0 /\ NothingBound /\ Len(tokens) >= 1) =>
    LET d == Max({EndOf(ttsMappings[i]) : i \in 1..Len(ttsMappings)})
    IN  IF d > 0 THEN UniformOver(d)
        ELSE UniformOver(Ms(DefaultDuration) * Len(tokens))

\* three tokens share a total that the last segment mapping does not end
C8_Witness ==
  /\ Done
  /\ NothingBound
  /\ Len(tokens) = 3
  /\ Len(ttsMappings) >= 2
  /\ EndOf(ttsMappings[Len(ttsMappings)]) < EndOf(ttsMappings[1])
  /\ mappings[3].end = EndOf(ttsMappings[1])
  /\ mappings[2].start * 3 = EndOf(ttsMappings[1])

----------------------------------------------------------------------------
(* Repeated calls *)

----------------------------------------------------------------------------
(* The request end to end, and the tokenizer *)

\* the text "ab" with the vocabulary {"ab"} and the boundary events
\* {"a",0,150}, {"b",150,160}
EndToEndScenario ==
  /\ text = <<"a", "b">>
  /\ words = <<[id |-> 1, simplified |-> <<"a", "b">>]>>
  /\ Len(wordTimings) = 2
  /\ wordTimings[1].word = <<"a">>
  /\ wordTimings[1].start = 0 /\ wordTimings[1].duration = Ms(150)
  /\ wordTimings[2].word = <<"b">>
  /\ wordTimings[2].start = Ms(150) /\ wordTimings[2].duration = Ms(160)

\* C6 (end to end): in that scenario the request yields the single token
\* {"ab", index 0} and the single TokenMapping {tokenIndex 0, start 0,
\* end 310}, whichever way the segmenter cuts the text.
C6_EndToEnd ==
  (Done /\ EndToEndScenario) =>
    /\ tokens = <<[text |-> <<"a", "b">>, word |-> 1, index |-> 0]>>
    /\ Len(mappings) = 1
    /\ mappings[1].tokenIndex = 0
    /\ mappings[1].start = 0
    /\ mappings[1].end = Ms(310)

Tokenized == pc \in {"call", "second", "done"}

\* the offset in the text at which token k starts
RECURSIVE OffsetOf(_)
OffsetOf(k) == IF k <= 1 THEN 0 ELSE OffsetOf(k - 1) + Len(tokens[k - 1].text)

IsKey(str) == \E k \in 1..Len(words) : words[k].simplified = str

\* the lengths of the vocabulary keys that start at offset o of the text
KeyLengthsAt(o) ==
  {len \in 1..(Len(text) - o) :
     /\ \E k \in 1..Len(words) : len <= Len(words[k].simplified)
     /\ IsKey(SubSeq(text, o + 1, o + len))}

\* the entry that the lookup holds for a key: the last word of that text
EntryOf(str) ==
  words[Max({k \in 1..Len(words) : words[k].simplified = str})].id

\* C10 (longest match): a token that starts on an ideograph where some
\* vocabulary key starts is the longest such key, of length at most
\* min(longest key, remaining length), and carries the entry of that key.
C10_LongestMatch ==
  Tokenized =>
    \A k \in 1..Len(tokens) :
      LET o == OffsetOf(k)
          lens == KeyLengthsAt(o)
      IN  (o < Len(text) /\ IsHan(text[o + 1]) /\ lens # {}) =>
            /\ tokens[k].text = SubSeq(text, o + 1, o + Max(lens))
            /\ tokens[k].word = EntryOf(tokens[k].text)

\* the text "ab" with the vocabulary {"ab", "a"} is the single token "ab"
C10_Witness ==
  /\ Tokenized
  /\ text = <<"a", "b">>
  /\ IsKey(<<"a">>) /\ IsKey(<<"a", "b">>)
  /\ Len(tokens) = 1
  /\ tokens[1].text = <<"a", "b">>
  /\ tokens[1].word # NoWord

----------------------------------------------------------------------------
(* The locator *)

Located == pc = "located"

\* the mappings whose interval contains the time asked for, ends included
Containing ==
  {k \in 1..Len(mappings) :
     mappings[k].start <= currentTimeMs /\ currentTimeMs <= mappings[k].end}

\* C11 as stated (locator range): for a list sorted by start, a time before
\* the start of the first mapping or after the end of the last mapping is
\* answered with -1.
C11_OutsideFirstAndLast ==
  (Located /\ Len(mappings) > 0) =>
    ((currentTimeMs < mappings[1].start
      \/ currentTimeMs > mappings[Len(mappings)].end) => located = -1)

\* C11 as amended: a time before the start of the first mapping or after
\* the end of every mapping is answered with -1.
C11_OutsideEveryInterval ==
  (Located /\ Len(mappings) > 0) =>
    ((currentTimeMs < mappings[1].start
      \/ \A k \in 1..Len(mappings) : currentTimeMs > mappings[k].end)
       => located = -1)

\* a time after the largest end, which the last mapping of the list does
\* not have
C11_Witness ==
  /\ Located
  /\ Len(mappings) >= 2
  /\ \E k \in 1..Len(mappings) : mappings[k].end > mappings[Len(mappings)].end
  /\ \A k \in 1..Len(mappings) : currentTimeMs > mappings[k].end
  /\ located = -1

\* C12 (locator hit): the answer is the tokenIndex of the first mapping in
\* list order whose interval contains the time, both ends included, and -1
\* exactly when no mapping contains it.
C12_FirstContaining ==
  Located =>
    /\ (located = -1) <=> (Containing = {})
    /\ Containing # {} =>
         located = mappings[CHOOSE k \in Containing :
                              \A j \in Containing : k <= j].tokenIndex

\* the time is the end of one mapping and the start of the next, of another
\* token: the earlier one is the answer
C12_Witness ==
  /\ Located
  /\ \E k \in 1..(Len(mappings) - 1) :
       /\ mappings[k].start < mappings[k].end
       /\ mappings[k].end = currentTimeMs
       /\ mappings[k + 1].start = currentTimeMs
       /\ mappings[k + 1].tokenIndex # mappings[k].tokenIndex
       /\ Containing = {k, k + 1}
       /\ located = mappings[k].tokenIndex

----------------------------------------------------------------------------
(* The segment mapper and the boundary events *)

Mapped == pc = "tokenize"

Matches(segmentText, boundaryWord) ==
  Includes(segmentText, boundaryWord) \/ Includes(boundaryWord, segmentText)

\* the cursor when the event of the j-th mapping is taken up
CursorAt(j) == IF j = 1 THEN 0 ELSE ttsMappings[j - 1].segmentIndex + 1

\* the segments from the cursor c on that match the k-th event
MatchesFrom(k, c) ==
  {i \in c..(Len(segments) - 1) :
     Matches(segments[i + 1].text, Trim(wordTimings[k].word))}

\* C13 (binding): every event, in order, is bound to the first segment at
\* or after the cursor whose text contains the trimmed word or is contained
\* in it; the mapping has that segment's index and text and the event's
\* start and duration, and the cursor moves just past the segment, so that
\* segmentIndex increases strictly.
C13_Binding ==
  Mapped =>
    /\ Len(ttsMappings) <= Len(wordTimings)
    /\ \A j \in 1..Len(ttsMappings) :
         LET found == MatchesFrom(j, CursorAt(j))
         IN  /\ found # {}
             /\ ttsMappings[j].segmentIndex =
                  CHOOSE i \in found : \A h \in found : i <= h
             /\ ttsMappings[j].start = wordTimings[j].start
             /\ ttsMappings[j].duration = wordTimings[j].duration
             /\ ttsMappings[j].word = segments[ttsMappings[j].segmentIndex + 1].text
    /\ Len(ttsMappings) < Len(wordTimings) =>
         MatchesFrom(Len(ttsMappings) + 1, CursorAt(Len(ttsMappings) + 1)) = {}
    /\ \A j \in 1..(Len(ttsMappings) - 1) :
         ttsMappings[j].segmentIndex < ttsMappings[j + 1].segmentIndex

\* the second event, whose word needs trimming, passes over a segment
C13_Witness ==
  /\ Mapped
  /\ Len(ttsMappings) = 2
  /\ ttsMappings[2].segmentIndex = ttsMappings[1].segmentIndex + 2
  /\ wordTimings[2].word # Trim(wordTimings[2].word)
  /\ wordTimings[1].word = <<"a", "b">>

\* the mapper of the claim: an event that matches no segment from the
\* cursor on is dropped and the cursor advances by one segment
RECURSIVE MapAdvancingByOne(_, _, _, _, _)
MapAdvancingByOne(segmentedWords, ttsBoundaries, k, c, ms) ==
  IF k > Len(ttsBoundaries) THEN ms
  ELSE LET found == {i \in c..(Len(segmentedWords) - 1) :
                       Matches(segmentedWords[i + 1].text,
                               Trim(ttsBoundaries[k].word))}
           i == CHOOSE h \in found : \A g \in found : h <= g
       IN  IF found # {}
           THEN MapAdvancingByOne(segmentedWords, ttsBoundaries, k + 1, i + 1,
                  Append(ms, [segmentIndex |-> i,
                              start |-> ttsBoundaries[k].start,
                              duration |-> ttsBoundaries[k].duration,
                              word |-> segmentedWords[i + 1].text]))
           ELSE MapAdvancingByOne(segmentedWords, ttsBoundaries, k + 1,
                  MathMin(c + 1, Len(segmentedWords)), ms)

\* C14 (recovery): an event that matches no segment at or after the cursor
\* is the only one dropped, and the cursor advances by exactly one segment:
\* a later event that matches one of the remaining segments is still bound.
C14_Recovery ==
  Mapped => ttsMappings = MapAdvancingByOne(segments, wordTimings, 1, 0, <<>>)

Synthesized == pc \in {"map", "tokenize"}

\* C15 (ordering): the list of boundary events handed to mapTTSBoundaries
\* is sorted by non-decreasing start, also when the callbacks arrive out of
\* chronological order.
C15_SortedBoundaries ==
  Synthesized =>
    \A k \in 1..(Len(wordTimings) - 1) :
      wordTimings[k].start <= wordTimings[k + 1].start

\* C16 (validation): no negative offset or duration of a raw event reaches
\* the aligner: every segment mapping passed to createTokenToSegmentMapping
\* has start >= 0 and duration >= 0.
C16_NonNegativeMappings ==
  Mapped =>
    \A j \in 1..Len(ttsMappings) :
      ttsMappings[j].start >= 0 /\ ttsMappings[j].duration >= 0

----------------------------------------------------------------------------
(* The estimated marker *)

\* how often the record r occurs in the list ms
Occurrences(ms, r) == Cardinality({k \in 1..Len(ms) : ms[k] = r})

\* the mapping m was made from the segment mapping at index i, or from a
\* run of segment mappings that begins there
MadeFrom(m, i) ==
  /\ m.segmentIndex = ttsMappings[i + 1].segmentIndex
  /\ m.start = ttsMappings[i + 1].start
  /\ StartsWith(m.text, Trim(ttsMappings[i + 1].word))

\* C17 (estimated marker): a mapping made by the first or the second pass
\* carries the segmentIndex (>= 0) of the first segment mapping it consumed;
\* the gap fill and the uniform fallback keep these mappings as they are and
\* add mappings of segmentIndex -1 only, for tokens that had none: in the
\* result segmentIndex is -1 exactly for the estimated intervals.
C17_EstimatedMarker ==
  [][/\ pc' = "second" =>
          \A k \in 1..Len(mappings') :
            /\ mappings'[k].segmentIndex >= 0
            /\ \E i \in usedTtsMappings' : MadeFrom(mappings'[k], i)
     /\ (pc = "second" /\ pc' = "done") =>
          LET evidenced == SelectSeq(mappings', Evidenced)
          IN  /\ Len(evidenced) = Len(mappings)
              /\ \A k \in 1..Len(mappings) :
                   Occurrences(evidenced, mappings[k]) = Occurrences(mappings, mappings[k])
              /\ \A k \in 1..Len(mappings') :
                   ~Evidenced(mappings'[k]) =>
                     /\ mappings'[k].segmentIndex = -1
                     /\ \A j \in 1..Len(mappings) :
                          mappings[j].tokenIndex # mappings'[k].tokenIndex
              /\ Len(mappings') - Len(evidenced) =
                   Cardinality(TokenIndices
                               \ {mappings[j].tokenIndex : j \in 1..Len(mappings)})
    ]_vars

\* a compound token that carries the index of the first of the two segment
\* mappings it spans, next to an estimated one
C17_Witness ==
  /\ Done
  /\ Len(ttsMappings) = 2
  /\ \E k \in 1..Len(mappings) : mappings[k].segmentIndex = -1
  /\ \E k \in 1..Len(mappings) :
       /\ mappings[k].text = <<"a", "b">>
       /\ mappings[k].segmentIndex = ttsMappings[1].segmentIndex
       /\ mappings[k].end = EndOf(ttsMappings[2])
       /\ mappings[k].end > EndOf(ttsMappings[1])

----------------------------------------------------------------------------
(* The order of the tokens in the returned list *)

\* the trimmed words of the segment mappings i..j, concatenated
RECURSIVE WordsOf(_, _)
WordsOf(i, j) ==
  IF i > j THEN <<>> ELSE Trim(ttsMappings[i].word) \o WordsOf(i + 1, j)

\* the texts of the tokens of the set S, in token order, from token t on
RECURSIVE TextsOf(_, _)
TextsOf(S, t) ==
  IF t >= Len(tokens) THEN <<>>
  ELSE (IF t \in S THEN tokens[t + 1].text ELSE <<>>) \o TextsOf(S, t + 1)

\* the segment mappings are listed in token order: their words spell, one
\* run of mappings per token, the texts of some of the tokens in order
InTokenOrder ==
  \E S \in SUBSET TokenIndices :
    /\ TextsOf(S, 0) = WordsOf(1, Len(ttsMappings))
    /\ \A t \in S :
         \E i \in 0..Len(ttsMappings) :
           Len(WordsOf(1, i)) = Len(TextsOf({u \in S : u < t}, 0))

WellFormedInput ==
  /\ \A t, u \in TokenIndices : tokens[t + 1].text = tokens[u + 1].text => t = u
  /\ \A i \in 1..Len(ttsMappings) :
       /\ ttsMappings[i].start >= 0
       /\ ttsMappings[i].duration >= 0
       /\ Trim(ttsMappings[i].word) # <<>>
  /\ \A i \in 1..(Len(ttsMappings) - 1) :
       EndOf(ttsMappings[i]) <= ttsMappings[i + 1].start
  /\ InTokenOrder

----------------------------------------------------------------------------
(* The two tokenizers *)

BothTokenized == pc = "call"

\* C19 (tokenizer equivalence): the backend tokenize returns the same
\* sequence of (text, word) pairs as the tokenize of Articles.tsx, and the
\* index of each backend token is its position in the frontend array.
C19_TokenizerEquivalence ==
  BothTokenized =>
    /\ Len(tokens) = Len(frontendTokens)
    /\ \A k \in 1..Len(tokens) :
         /\ tokens[k].text = frontendTokens[k].text
         /\ tokens[k].word = frontendTokens[k].word
         /\ tokens[k].index = k - 1

\* a run of two non-ideographs, then an ideograph; and a vocabulary word of
\* two ideographs after a non-ideograph
C19_Witness ==
  /\ BothTokenized
  /\ Len(tokens) = 2
  /\ \/ Len(tokens[1].text) = 2 /\ ~IsHan(tokens[1].text[1])
        /\ tokens[2].word # NoWord
     \/ Len(tokens[2].text) = 2 /\ tokens[2].word # NoWord
        /\ ~IsHan(tokens[1].text[1])
  /\ Len(frontendTokens) = 2
  /\ text[1] = " "

----------------------------------------------------------------------------
(* The mock flashcard store *)

\* the p-th request is a POST that was answered 201
Created(p) ==
  requests[p].method = "POST" /\ IsPositiveInteger(requests[p].wordId)

\* a DELETE after the p-th request had the wordId of the p-th request
DeletedLater(p) ==
  \E q \in (p + 1)..Len(requests) :
    /\ requests[q].method = "DELETE"
    /\ IsPositiveInteger(requests[q].wordId)
    /\ requests[q].wordId.value = requests[p].wordId.value

\* the records of the valid POSTs that no later DELETE aimed at, in the
\* order of the POSTs; the id of a record counts the valid POSTs up to it
RECURSIVE SurvivingFrom(_)
SurvivingFrom(p) ==
  IF p > Len(requests) THEN <<>>
  ELSE (IF Created(p) /\ ~DeletedLater(p)
        THEN <<[id |-> Cardinality({q \in 1..p : Created(q)}),
                userId |-> MockUser,
                wordId |-> requests[p].wordId.value]>>
        ELSE <<>>) \o SurvivingFrom(p + 1)

\* C20 (mock flashcard store): after any sequence of POST and DELETE
\* requests from a cleared store, the store, and what GET answers, is the
\* list of the records of the valid POSTs whose wordId no later DELETE aimed
\* at, in insertion order; a request whose wordId is not a positive integer
\* is answered 400.
C20_StoreConsistency ==
  /\ store = SurvivingFrom(1)
  /\ requests # <<>> =>
       LET last == requests[Len(requests)]
       IN  /\ last.method = "GET" =>
                response.status = 200 /\ response.body = SurvivingFrom(1)
           /\ (last.method # "GET" /\ ~IsPositiveInteger(last.wordId)) =>
                response.status = 400

\* one DELETE removes the two records of a wordId; the record posted
\* between them stays, with its id
C20_Witness ==
  /\ Len(requests) = 4
  /\ requests[4].method = "DELETE"
  /\ response.status = 200
  /\ response.body.removed = 2
  /\ Len(store) = 1
  /\ store[1].id = 2
  /\ \E p \in 1..3 : requests[p].method = "POST" /\ requests[p].wordId.value = 2
                       /\ IsPositiveInteger(requests[p].wordId)

----------------------------------------------------------------------------
(* The first pass binds one token per segment mapping *)

AfterFirstPass == pc = "second" /\ tokenIndex = 0

TokensWithText(w) == {t \in 0..Len(tokens) - 1 : tokens[t + 1].text = w}
MappingsWithWord(w) ==
  {i \in 0..Len(ttsMappings) - 1 : Trim(ttsMappings[i + 1].word) = w}

\* the position of x in the increasing enumeration of S, from 1
RankIn(S, x) == Cardinality({y \in S : y < x}) + 1

\* C21 (first pass): no token is bound twice, and when at least as many
\* tokens as segment mappings carry a word, the j-th segment mapping with
\* that word is bound to the j-th token with that text.
C21_JthMappingToJthToken ==
  AfterFirstPass =>
    /\ \A k, l \in 1..Len(mappings) :
         k # l => mappings[k].tokenIndex # mappings[l].tokenIndex
    /\ \A i \in 0..Len(ttsMappings) - 1 :
         LET w == Trim(ttsMappings[i + 1].word)
         IN  Cardinality(TokensWithText(w)) >= Cardinality(MappingsWithWord(w))
             /\ MappingsWithWord(w) # {} /\ TokensWithText(w) # {}
             => \E k \in 1..Len(mappings) :
                  /\ mappings[k].segmentIndex = ttsMappings[i + 1].segmentIndex
                  /\ mappings[k].tokenIndex \in TokensWithText(w)
                  /\ RankIn(TokensWithText(w), mappings[k].tokenIndex)
                       = RankIn(MappingsWithWord(w), i)

----------------------------------------------------------------------------
(* A failed second-pass scan leaves the used set as it found it *)

\* a proper, non-empty prefix of the token's text
ProperPrefix(w, tokenText) ==
  /\ Len(w) > 0
  /\ Len(w) < Len(tokenText)
  /\ SubSeq(tokenText, 1, Len(w)) = w

\* C22 (second pass, frame): when the iteration for a token ends without a
\* mapping for that token, the set of used segment mappings is the set the
\* iteration started with, and no mapping was added.
C22_FailureLeavesNoTrace ==
  [][(/\ pc = "second"
      /\ tokenIndex' = tokenIndex + 1
      /\ \A k \in 1..Len(mappings') : mappings'[k].tokenIndex # tokenIndex)
     => /\ usedTtsMappings' = usedTtsMappings
        /\ mappings' = mappings]_vars

\* the scan for the token "ab" collected the word "a", found no "b" to
\* complete it and ended: the token has no mapping and "a" is unused
C22_Witness ==
  /\ pc = "second"
  /\ tokenIndex = Len(tokens)
  /\ tokenIndex >= 1
  /\ MappingsOf(tokenIndex - 1) = {}
  /\ \E i \in 1..Len(ttsMappings) :
       /\ ProperPrefix(Trim(ttsMappings[i].word), tokens[tokenIndex].text)
       /\ i - 1 \notin usedTtsMappings

----------------------------------------------------------------------------
(* Gap fill of punctuation tokens *)

PunctuationOnly(tokenText) ==
  /\ Len(tokenText) > 0
  /\ \A k \in 1..Len(tokenText) : tokenText[k] \in PunctuationChars

\* the mappings of token t that the two passes made, in the returned list
EvidencedOf(t) == {k \in MappingsOf(t) : Evidenced(mappings[k])}
MappedTokens == {t \in TokenIndices : EvidencedOf(t) # {}}
MappedBefore(t) == {p \in MappedTokens : p < t}
MappedAfter(t) == {n \in MappedTokens : n > t}
NearestBefore(t) == CHOOSE p \in MappedBefore(t) : \A q \in MappedBefore(t) : q <= p
NearestAfter(t) == CHOOSE n \in MappedAfter(t) : \A q \in MappedAfter(t) : n <= q
\* a token bound twice by the first pass has several mappings: the gap fill
\* reads the last listed one of the token before, the first of the token after
LastMappingOf(p) ==
  mappings[CHOOSE k \in EvidencedOf(p) : \A j \in EvidencedOf(p) : j <= k]
FirstMappingOf(n) ==
  mappings[CHOOSE k \in EvidencedOf(n) : \A j \in EvidencedOf(n) : k <= j]

UnmappedPunctuation ==
  {t \in TokenIndices \ MappedTokens : PunctuationOnly(tokens[t + 1].text)}

\* the one mapping of token t is estimated and 50 ms wide
FiftyWide(t) ==
  /\ Cardinality(MappingsOf(t)) = 1
  /\ \A k \in MappingsOf(t) :
       /\ mappings[k].segmentIndex = -1
       /\ mappings[k].end = mappings[k].start + Ms(50)

StartOf(t) == mappings[CHOOSE k \in MappingsOf(t) : TRUE].start

\* C23 as stated (punctuation gap fill): an unmapped punctuation-only token
\* gets an estimated interval exactly 50 ms wide; it starts at the end of
\* the nearest preceding mapped token, else 50 ms before the start of the
\* nearest following mapped token, and it is [0, 50] when no token at all
\* was mapped.
C23_FiftyAlways ==
  Done =>
    \A t \in UnmappedPunctuation :
      /\ FiftyWide(t)
      /\ IF MappedBefore(t) # {}
         THEN \E k \in EvidencedOf(NearestBefore(t)) : StartOf(t) = mappings[k].end
         ELSE IF MappedAfter(t) # {}
         THEN \E k \in EvidencedOf(NearestAfter(t)) :
                StartOf(t) = mappings[k].start - Ms(50)
         ELSE StartOf(t) = 0

\* C23 (punctuation gap fill): when some token was mapped, an unmapped
\* punctuation-only token gets an estimated interval exactly 50 ms wide; it
\* starts at the end of the nearest preceding mapped token, else 50 ms
\* before the start of the nearest following mapped token but not before 0.
\* When no token at all was mapped it gets its slot of the uniform
\* distribution.
C23_FiftyWhenSomeMapped ==
  Done =>
    \A t \in UnmappedPunctuation :
      IF MappedTokens # {}
      THEN /\ FiftyWide(t)
           /\ StartOf(t) =
                IF MappedBefore(t) # {}
                THEN LastMappingOf(NearestBefore(t)).end
                ELSE MathMax(0, FirstMappingOf(NearestAfter(t)).start - Ms(50))
      ELSE LET d == IF Len(ttsMappings) = 0 THEN 0
                    ELSE Max({EndOf(ttsMappings[i]) : i \in 1..Len(ttsMappings)})
           IN  IF d > 0 THEN UniformOver(d)
               ELSE UniformOver(Ms(DefaultDuration) * Len(tokens))

\* a punctuation token before the first mapped token, whose start is less
\* than 50 ms: the interval is [0, 50]
C23_Witness ==
  /\ Done
  /\ \E t \in UnmappedPunctuation :
       /\ MappedBefore(t) = {}
       /\ MappedAfter(t) # {}
       /\ FirstMappingOf(NearestAfter(t)).start < Ms(50)
       /\ StartOf(t) = 0

----------------------------------------------------------------------------
(* The interpolation of the gap fill in binary floating point.             *)
(* The aligner above computes with exact quotients.  The numbers of the    *)
(* code are binary floating-point numbers, each operation rounded to the   *)
(* nearest one, ties to even; here the interpolation is computed that way, *)
(* with a significand of SignificandBits bits for the 53 of a double.      *)

SignificandBits == 6
MaxGap == 3

RECURSIVE Pow2(_)
Pow2(n) == IF n = 0 THEN 1 ELSE 2 * Pow2(n - 1)

\* a number x is held as the integer x * Unit; the smallest magnitude of the
\* interpolation, 1 / MaxGap, keeps its full significand
Unit == Pow2(SignificandBits + MaxGap - 2)

\* the quotient a / b of a >= 0 and b > 0, to the nearest integer, ties to even
RoundHalfEven(a, b) ==
  LET q == a \div b
      r == a % b
  IN  IF 2 * r < b THEN q
      ELSE IF 2 * r > b THEN q + 1
      ELSE IF q % 2 = 0 THEN q ELSE q + 1

\* the spacing of the floating-point numbers at a / b: the largest power of
\* two u with u * 2^(SignificandBits - 1) <= a / b, and 1 below that
RECURSIVE SpacingFrom(_, _, _)
SpacingFrom(a, b, u) ==
  IF 2 * u * Pow2(SignificandBits - 1) * b <= a
  THEN SpacingFrom(a, b, 2 * u)
  ELSE u

Spacing(a, b) == SpacingFrom(a, b, 1)

RoundPositive(a, b) == RoundHalfEven(a, b * Spacing(a, b)) * Spacing(a, b)

\* the floating-point number nearest to a / b
Float(a, b) ==
  IF a = 0 THEN 0
  ELSE IF a < 0 THEN -RoundPositive(-a, b)
  ELSE RoundPositive(a, b)

FloatAdd(x, y) == Float(x + y, 1)
FloatSub(x, y) == Float(x - y, 1)
FloatMul(x, y) == Float(x * y, Unit)
FloatDiv(x, y) == Float(x * Unit, y)

\* the estimate for the token at `position` places after the previous mapped
\* token, of `gap` places between the two mapped tokens
InterpolatedEstimate(prevEnd, nextStart, gap, position) ==
  LET progress == FloatDiv(position * Unit, gap * Unit)
      timeGap == FloatSub(nextStart, prevEnd)
      estimatedStart == FloatAdd(prevEnd, FloatMul(progress, timeGap))
      estimatedDuration == FloatDiv(timeGap, gap * Unit)
  IN  [start |-> estimatedStart,
       end |-> FloatAdd(estimatedStart, estimatedDuration)]

\* times in ms that are floating-point numbers of the short significand
GapTimes == {t \in {0, 10, 30, 50, 70, 100, 120, 150, 180, 200} :
               Float(t * Unit, 1) = t * Unit}

InitInterpolate ==
  /\ text = <<>>
  /\ words = <<>>
  /\ cut = <<>>
  /\ segments = <<>>
  /\ wordTimings = <<>>
  /\ tokens = <<>>
  /\ ttsMappings = <<>>
  /\ mappings = <<>>
  /\ usedTtsMappings = {}
  /\ tokenIndex = 0
  /\ pc = "fill"
  /\ callNo = 1
  /\ first = [tokens |-> <<>>, ttsMappings |-> <<>>, result |-> NoResult]
  /\ InitAside

\* the gap fill comes to unmapped tokens between two mapped ones
EnterGapStep ==
  /\ pc = "fill"
  /\ \E prevEnd \in GapTimes : \E nextStart \in GapTimes : \E gap \in 2..MaxGap :
       interpolation' = [prevEnd |-> prevEnd * Unit, nextStart |-> nextStart * Unit,
                         gap |-> gap, estimates |-> <<>>]
  /\ pc' = "interpolate"
  /\ UNCHANGED <<request, tokens, ttsMappings, mappings, usedTtsMappings,
                 tokenIndex, callNo, first, currentTimeMs, located,
                 frontendTokens, store, nextId, requests, response,
                 scanIndex, ttsCache, nextCacheId, handlers>>

\* the estimate of the next token of the gap
InterpolateStep ==
  /\ pc = "interpolate"
  /\ Len(interpolation.estimates) < interpolation.gap - 1
  /\ interpolation' =
       [interpolation EXCEPT !.estimates =
          Append(@, InterpolatedEstimate(interpolation.prevEnd,
                      interpolation.nextStart, interpolation.gap,
                      Len(interpolation.estimates) + 1))]
  /\ UNCHANGED <<request, tokens, ttsMappings, mappings, usedTtsMappings,
                 tokenIndex, pc, callNo, first, currentTimeMs, located,
                 frontendTokens, store, nextId, requests, response,
                 scanIndex, ttsCache, nextCacheId, handlers>>

NextInterpolate == EnterGapStep \/ InterpolateStep

SpecInterpolate == InitInterpolate /\ [][NextInterpolate]_vars

----------------------------------------------------------------------------
(* TokenizationService.tokenize, one iteration of its while loop at a time *)

\* A mutant of TokenizeIteration: i advances by matchedLen also when no word
\* matched.
TokenizeIterationByMatch(content, ws, i, n) ==
  IF ~IsHan(content[i + 1])
  THEN LET j == RunEnd(content, i + 1)
       IN  [token |-> [text |-> Slice(content, i, j), word |-> NoWord, index |-> n],
            i |-> j]
  ELSE LET matchedLen ==
             MatchedLen(content, ws, i,
                        MathMin(LookupMaxLen(ws), Len(content) - i))
       IN  IF matchedLen > 0
           THEN [token |-> [text |-> Substr(content, i, matchedLen),
                            word |-> LookupGet(ws, Substr(content, i, matchedLen)),
                            index |-> n],
                 i |-> i + matchedLen]
           ELSE [token |-> [text |-> <<content[i + 1]>>, word |-> NoWord,
                            index |-> n],
                 i |-> i + matchedLen]

\* the body of the while loop at position i, with tokenIndex n: the token
\* pushed and the new i
TokenizeIteration(content, ws, i, n) ==
  IF ~IsHan(content[i + 1])
  THEN LET j == RunEnd(content, i + 1)
       IN  [token |-> [text |-> Slice(content, i, j), word |-> NoWord, index |-> n],
            i |-> j]
  ELSE LET matchedLen ==
             MatchedLen(content, ws, i,
                        MathMin(LookupMaxLen(ws), Len(content) - i))
       IN  IF matchedLen > 0
           THEN [token |-> [text |-> Substr(content, i, matchedLen),
                            word |-> LookupGet(ws, Substr(content, i, matchedLen)),
                            index |-> n],
                 i |-> i + matchedLen]
           ELSE [token |-> [text |-> <<content[i + 1]>>, word |-> NoWord,
                            index |-> n],
                 i |-> i + 1]

InitLoop ==
  /\ text \in Contents
  /\ words \in WordLists
  /\ cut = <<>>
  /\ segments = <<>>
  /\ wordTimings = <<>>
  /\ tokens = <<>>
  /\ ttsMappings = <<>>
  /\ mappings = <<>>
  /\ usedTtsMappings = {}
  /\ tokenIndex = 0
  /\ pc = "while"
  /\ callNo = 1
  /\ first = [tokens |-> <<>>, ttsMappings |-> <<>>, result |-> NoResult]
  /\ InitAside

\* one iteration of the while loop
TokenizeLoopStep ==
  /\ pc = "while"
  /\ scanIndex < Len(text)
  /\ LET it == TokenizeIteration(text, words, scanIndex, Len(tokens))
     IN  /\ tokens' = Append(tokens, it.token)
         /\ scanIndex' = it.i
  /\ UNCHANGED <<request, ttsMappings, mappings, usedTtsMappings, tokenIndex,
                 pc, callNo, first, currentTimeMs, located, frontendTokens,
                 store, nextId, requests, response, interpolation, ttsCache,
                 nextCacheId, handlers>>

\* the loop condition fails (at once for an empty content): return tokens
TokenizeReturnStep ==
  /\ pc = "while"
  /\ scanIndex >= Len(text)
  /\ pc' = "return"
  /\ UNCHANGED <<aside, request, tokens, ttsMappings, mappings, usedTtsMappings,
                 tokenIndex, callNo, first>>

NextLoop == TokenizeLoopStep \/ TokenizeReturnStep

\* the loop is straight-line code of one call: its next step is taken
SpecLoop == InitLoop /\ [][NextLoop]_vars /\ WF_vars(NextLoop)

\* the iteration pushed one token, not empty, read at the old position, and
\* moved the position by its length
OneTokenAndAdvance ==
  /\ Len(tokens') = Len(tokens) + 1
  /\ SubSeq(tokens', 1, Len(tokens)) = tokens
  /\ Len(tokens'[Len(tokens')].text) >= 1
  /\ scanIndex' = scanIndex + Len(tokens'[Len(tokens')].text)
  /\ scanIndex' <= Len(text)
  /\ tokens'[Len(tokens')].text = SubSeq(text, scanIndex + 1, scanIndex')

\* C25 (tokenizer progress and termination): every iteration of the loop
\* emits exactly one non-empty token and advances the position by its
\* length, so the call returns, after at most as many iterations as the
\* text has characters; an empty text yields the empty sequence.
C25_ProgressAndTermination ==
  /\ [][(pc = "while" /\ pc' = "while") => OneTokenAndAdvance]_vars
  /\ [](Len(tokens) <= Len(text))
  /\ [](pc = "return" /\ text = <<>> => tokens = <<>>)
  /\ <>(pc = "return")

\* a call returned after two iterations, one of which advanced by two
C25_Witness ==
  /\ pc = "return"
  /\ Len(tokens) = 2
  /\ \E k \in 1..2 : Len(tokens[k].text) = 2
  /\ scanIndex = 3

----------------------------------------------------------------------------
(* segmentText with a cut that answers what it likes: words that are not   *)
(* in the text, in any order, blank or empty ones                          *)

MaxCut == 3

CutWords == {<<>>, <<" ">>, <<"a">>, <<"b">>, <<"a", "b">>, <<",">>}

\* segmentText is given the text alone
InitSegment ==
  /\ text \in Texts
  /\ words = <<>>
  /\ cut = <<>>
  /\ segments = <<>>
  /\ wordTimings = <<>>
  /\ tokens = <<>>
  /\ ttsMappings = <<>>
  /\ mappings = <<>>
  /\ usedTtsMappings = {}
  /\ tokenIndex = 0
  /\ pc = "segment"
  /\ callNo = 1
  /\ first = [tokens |-> <<>>, ttsMappings |-> <<>>, result |-> NoResult]
  /\ InitAside

SegmentAnyCutStep ==
  /\ pc = "segment"
  /\ \E c \in SeqsUpTo(CutWords, MaxCut) :
       /\ cut' = c
       /\ segments' = SegmentText(text, c)
  /\ pc' = "segmented"
  /\ UNCHANGED <<aside, text, words, wordTimings, tokens, ttsMappings, mappings,
                 usedTtsMappings, tokenIndex, callNo, first>>

NextSegment == SegmentAnyCutStep

SpecSegment == InitSegment /\ [][NextSegment]_vars

Segmented == pc = "segmented"

\* C26 (segmenter offsets): whatever the cut yields, every segment is the
\* substring of the text at its offsets, starts at or after the end of the
\* segment before it, is neither empty nor blank, and the indices are
\* 0, 1, 2, ... without gaps.
C26_SegmentOffsets ==
  Segmented =>
    \A k \in 1..Len(segments) :
      /\ 0 <= segments[k].start
      /\ segments[k].end <= Len(text)
      /\ SubSeq(text, segments[k].start + 1, segments[k].end) = segments[k].text
      /\ \E j \in 1..Len(segments[k].text) : segments[k].text[j] \notin WhiteSpace
      /\ k > 1 => segments[k].start >= segments[k - 1].end
      /\ segments[k].index = k - 1

\* the second word of the cut is not in the text; the third is found and
\* gets the index 1
C26_Witness ==
  /\ Segmented
  /\ Len(cut) = 3
  /\ Trim(cut[2]) # <<>>
  /\ IndexOf(text, cut[2], 0) = -1
  /\ Len(segments) = 2
  /\ segments[2].text = cut[3]
  /\ segments[2].index = 1

----------------------------------------------------------------------------
(* POST /api/tts and DELETE /api/tts/cache/cleanup on the table TTSCache.  *)
(* Every await of a handler is a point where other handlers run.  A row is *)
(* [id, textHash, stale]: stale when lastUsedAt is more than 30 days ago.  *)
(* prisma's update rejects when no row has the id, its create when a row   *)
(* has the textHash (unique index).                                        *)

MaxPosts == 2

CacheHashes == {"h1", "h2"}

NoRow == 0

RowWithHash(h) == {r \in ttsCache : r.textHash = h}
RowWithId(id) == {r \in ttsCache : r.id = id}

InitServe ==
  /\ text = <<>>
  /\ words = <<>>
  /\ cut = <<>>
  /\ segments = <<>>
  /\ wordTimings = <<>>
  /\ tokens = <<>>
  /\ ttsMappings = <<>>
  /\ mappings = <<>>
  /\ usedTtsMappings = {}
  /\ tokenIndex = 0
  /\ pc = "serve"
  /\ callNo = 1
  /\ first = [tokens |-> <<>>, ttsMappings |-> <<>>, result |-> NoResult]
  /\ InitAside

UnchangedByServing ==
  UNCHANGED <<request, tokens, ttsMappings, mappings, usedTtsMappings,
              tokenIndex, pc, callNo, first, currentTimeMs, located,
              frontendTokens, store, nextId, requests, response,
              interpolation, scanIndex>>

\* a valid request arrives: validation passed, the cache hash is made
PostTts ==
  /\ pc = "serve"
  /\ Len(handlers) < MaxPosts
  /\ \E h \in CacheHashes :
       handlers' = Append(handlers,
                     [pc |-> "lookup", cacheHash |-> h, cachedId |-> NoRow,
                      found |-> FALSE, synthesized |-> FALSE, status |-> 0])
  /\ UNCHANGED <<ttsCache, nextCacheId>>
  /\ UnchangedByServing

\* await prisma.tTSCache.findUnique({ where: { textHash: cacheHash } })
CacheLookupStep ==
  /\ \E k \in 1..Len(handlers) :
       /\ handlers[k].pc = "lookup"
       /\ IF RowWithHash(handlers[k].cacheHash) # {}
          THEN handlers' =
                 [handlers EXCEPT ![k].pc = "touch",
                                  ![k].found = TRUE,
                                  ![k].cachedId =
                                     (CHOOSE r \in RowWithHash(handlers[k].cacheHash) : TRUE).id]
          ELSE handlers' = [handlers EXCEPT ![k].pc = "speak"]
  /\ UNCHANGED <<ttsCache, nextCacheId>>
  /\ UnchangedByServing

\* await prisma.tTSCache.update({ where: { id }, data: { lastUsedAt } }),
\* then the cached response; a rejection goes to the catch of the handler
CacheTouchStep ==
  /\ \E k \in 1..Len(handlers) :
       /\ handlers[k].pc = "touch"
       /\ IF RowWithId(handlers[k].cachedId) # {}
          THEN /\ ttsCache' = {IF r.id = handlers[k].cachedId
                               THEN [r EXCEPT !.stale = FALSE] ELSE r : r \in ttsCache}
               /\ handlers' = [handlers EXCEPT ![k].pc = "answered",
                                               ![k].status = 200]
          ELSE /\ ttsCache' = ttsCache
               /\ handlers' = [handlers EXCEPT ![k].pc = "answered",
                                               ![k].status = 500]
  /\ UNCHANGED nextCacheId
  /\ UnchangedByServing

\* await speakSsmlAsync: the engine completes the synthesis or does not
SpeakStep ==
  /\ \E k \in 1..Len(handlers) :
       /\ handlers[k].pc = "speak"
       /\ \E completed \in BOOLEAN :
            handlers' =
              IF completed
              THEN [handlers EXCEPT ![k].pc = "write", ![k].synthesized = TRUE]
              ELSE [handlers EXCEPT ![k].pc = "answered", ![k].status = 500]
  /\ UNCHANGED <<ttsCache, nextCacheId>>
  /\ UnchangedByServing

\* try { await prisma.tTSCache.create(...) } catch { }, then the response
CacheWriteStep ==
  /\ \E k \in 1..Len(handlers) :
       /\ handlers[k].pc = "write"
       /\ IF RowWithHash(handlers[k].cacheHash) = {}
          THEN /\ ttsCache' = ttsCache \cup
                    {[id |-> nextCacheId, textHash |-> handlers[k].cacheHash,
                      stale |-> FALSE]}
               /\ nextCacheId' = nextCacheId + 1
          ELSE UNCHANGED <<ttsCache, nextCacheId>>
       /\ handlers' = [handlers EXCEPT ![k].pc = "answered", ![k].status = 200]
  /\ UnchangedByServing

\* DELETE /api/tts/cache/cleanup: deleteMany where lastUsedAt < thirtyDaysAgo
CleanupStep ==
  /\ pc = "serve"
  /\ \E r \in ttsCache : r.stale
  /\ ttsCache' = {r \in ttsCache : ~r.stale}
  /\ UNCHANGED <<handlers, nextCacheId>>
  /\ UnchangedByServing

\* thirty days pass since a row was last used, while no request is served
AgeStep ==
  /\ pc = "serve"
  /\ \A k \in 1..Len(handlers) : handlers[k].pc = "answered"
  /\ \E r \in ttsCache :
       /\ ~r.stale
       /\ ttsCache' = (ttsCache \ {r}) \cup {[r EXCEPT !.stale = TRUE]}
  /\ UNCHANGED <<handlers, nextCacheId>>
  /\ UnchangedByServing

NextServe ==
  \/ PostTts
  \/ CacheLookupStep
  \/ CacheTouchStep
  \/ SpeakStep
  \/ CacheWriteStep
  \/ CleanupStep
  \/ AgeStep

SpecServe == InitServe /\ [][NextServe]_vars

\* C27 (cache bookkeeping): under every interleaving of POST /api/tts
\* requests and cleanups, a request whose synthesis completed, or whose
\* cache lookup found an entry, is answered 200.
C27_BookkeepingNeverFails ==
  \A k \in 1..Len(handlers) :
    (handlers[k].pc = "answered"
       /\ (handlers[k].found \/ handlers[k].synthesized))
    => handlers[k].status = 200

----------------------------------------------------------------------------
(* The tokens spell the text *)

\* the texts of the tokens from the k-th on, one after the other
RECURSIVE Spelled(_, _)
Spelled(toks, k) ==
  IF k > Len(toks) THEN <<>> ELSE toks[k].text \o Spelled(toks, k + 1)

\* every token is the non-empty piece of the text that follows the tokens
\* before it
ContiguousPieces(toks) ==
  \A k \in 1..Len(toks) :
    /\ Len(toks[k].text) >= 1
    /\ Len(Spelled(SubSeq(toks, 1, k), 1)) <= Len(text)
    /\ toks[k].text =
         SubSeq(text, Len(Spelled(SubSeq(toks, 1, k - 1), 1)) + 1,
                Len(Spelled(SubSeq(toks, 1, k), 1)))

\* C28 (tokenizer round trip): for every text and vocabulary the tokens, of
\* the server's tokenize and of the page's, are non-empty contiguous
\* pieces of the text, and their texts in index order spell the text.
C28_RoundTrip ==
  BothTokenized =>
    /\ ContiguousPieces(tokens)
    /\ Spelled(tokens, 1) = text
    /\ \A k \in 1..Len(tokens) : tokens[k].index = k - 1
    /\ ContiguousPieces(frontendTokens)
    /\ Spelled(frontendTokens, 1) = text

\* a text of a word, a run of two non-ideographs: two tokens of different
\* kinds spell it
C28_Witness ==
  /\ BothTokenized
  /\ Len(text) = MaxText
  /\ Len(tokens) = 2
  /\ \E k \in 1..2 : tokens[k].word # NoWord
  /\ \E k \in 1..2 : ~IsHan(tokens[k].text[1])

----------------------------------------------------------------------------
(* The caller calls again with the same tokens and segment mappings and    *)
(* another ttsSegments argument.                                           *)

\* the segment lists passed as ttsSegments: none, and "ab" cut in two ways
SegmentArguments ==
  {<<>>,
   SegmentText(<<"a", "b">>, <<<<"a">>, <<"b">>>>),
   SegmentText(<<"a", "b">>, <<<<"a", "b">>>>)}

CallWithOtherSegments ==
  /\ pc = "done"
  /\ callNo = 1
  /\ first' = [first EXCEPT !.result = mappings]
  /\ \E segs \in SegmentArguments \ {segments} : segments' = segs
  /\ callNo' = callNo + 1
  /\ pc' = "call"
  /\ UNCHANGED <<aside, text, words, cut, wordTimings, tokens, ttsMappings,
                 mappings, usedTtsMappings, tokenIndex>>

NextOtherSegments ==
  FirstPassStep \/ SecondPassStep \/ GapFillStep \/ CallWithOtherSegments

SpecOtherSegments == InitRepeat /\ [][NextOtherSegments]_vars

----------------------------------------------------------------------------
(* Every segment mapping is consumed at most once *)

\* the trimmed words of the segment mappings whose index is in R, from the
\* i-th on, in list order
RECURSIVE WordsOver(_, _)
WordsOver(R, i) ==
  IF i >= Len(ttsMappings) THEN <<>>
  ELSE (IF i \in R THEN Trim(ttsMappings[i + 1].word) ELSE <<>>) \o WordsOver(R, i + 1)

\* the mapping m is made of the segment mappings with the indices in R:
\* their words spell its text, the first gives its start and segmentIndex,
\* the last its end
MadeOf(m, R) ==
  /\ R # {}
  /\ LET lo == CHOOSE i \in R : \A j \in R : i <= j
         hi == CHOOSE i \in R : \A j \in R : j <= i
     IN  /\ m.segmentIndex = ttsMappings[lo + 1].segmentIndex
         /\ m.start = ttsMappings[lo + 1].start
         /\ m.end = EndOf(ttsMappings[hi + 1])
  /\ WordsOver(R, 0) = m.text

\* after the first pass every mapping is made of one segment mapping of its
\* own, and the used set is the set of these
FirstPassConsumes ==
  /\ \A k, l \in 1..Len(mappings') :
       k # l => mappings'[k].segmentIndex # mappings'[l].segmentIndex
  /\ \A k \in 1..Len(mappings') :
       \E i \in usedTtsMappings' : MadeOf(mappings'[k], {i})
  /\ Cardinality(usedTtsMappings') = Len(mappings')

\* an iteration of the second pass releases nothing that was used before it
\* and, when it adds a mapping, makes it of segment mappings that were
\* unused before it and are used after it
SecondPassConsumes ==
  /\ usedTtsMappings \subseteq usedTtsMappings'
  /\ \/ mappings' = mappings /\ usedTtsMappings' = usedTtsMappings
     \/ /\ Len(mappings') = Len(mappings) + 1
        /\ SubSeq(mappings', 1, Len(mappings)) = mappings
        /\ MadeOf(mappings'[Len(mappings')], usedTtsMappings' \ usedTtsMappings)

\* the gap fill returns the mappings of the two passes, each once, among
\* estimated ones
GapFillKeeps ==
  /\ \A k \in 1..Len(mappings) :
       Occurrences(mappings', mappings[k]) = Occurrences(mappings, mappings[k])
  /\ \A k \in 1..Len(mappings') :
       Evidenced(mappings'[k]) => Occurrences(mappings, mappings'[k]) >= 1

\* C30 (single consumption): every segment mapping contributes to at most
\* one returned TokenMapping: a mapping bound in the first pass is never
\* accumulated in the second, and none is accumulated into the intervals
\* of two tokens.
C30_SingleConsumption ==
  [][/\ (pc = "call" /\ pc' = "second") => FirstPassConsumes
     /\ (pc = "second" /\ pc' = "second") => SecondPassConsumes
     /\ (pc = "second" /\ pc' = "done") => GapFillKeeps]_vars

\* the first pass bound the word "a" to a token; the scan for the token
\* "ab" passed over it, found only "b" and made no mapping
C30_Witness ==
  /\ pc = "second"
  /\ tokenIndex = Len(tokens)
  /\ Len(mappings) = 1
  /\ mappings[1].text = <<"a">>
  /\ Cardinality(usedTtsMappings) = 1
  /\ \E t \in TokenIndices : tokens[t + 1].text = <<"a", "b">> /\ MappingsOf(t) = {}
  /\ \E i \in 1..Len(ttsMappings) :
       Trim(ttsMappings[i].word) = <<"b">> /\ i - 1 \notin usedTtsMappings

====
